---------------------------- MODULE Spec2Model ----------------------------
(***************************************************************************)
(* Trust score calculator of the Nexaway agency marketplace                *)
(* (app/services/trust_score_calculator.py), modelled as a state machine:  *)
(* the inputs of a call (an agency record and a review list), the locals   *)
(* of calculate_trust_score and calculate_from_reviews, and the position   *)
(* of the call.                                                            *)
(*                                                                         *)
(* Python values are represented as follows.                               *)
(*   str        a sequence of one-character strings                        *)
(*   None       the sequence None (its only element is no character)       *)
(*   int / non-numeric / None where a number is expected                   *)
(*              a record [kind, v], kind in "int", "str", "none"           *)
(*   datetime   a record [kind |-> "datetime", v |-> hours] or PyNone      *)
(*   dict / object   a function from the keys (attributes) it has          *)
(***************************************************************************)
EXTENDS Integers, Sequences, FiniteSets, TLC

(***************************************************************************)
(* Characters and Python's str methods                                     *)
(***************************************************************************)
LowerSeq == <<"a","b","c","d","e","f","g","h","i","j","k","l","m",
              "n","o","p","q","r","s","t","u","v","w","x","y","z">>

UpperSeq == <<"A","B","C","D","E","F","G","H","I","J","K","L","M",
              "N","O","P","Q","R","S","T","U","V","W","X","Y","Z">>

LowerChars == {LowerSeq[i] : i \in DOMAIN LowerSeq}

UpperChars == {UpperSeq[i] : i \in DOMAIN UpperSeq}

DigitChars == {"0","1","2","3","4","5","6","7","8","9"}

\* the characters str.strip() removes at both ends
Whitespace == {" ", "\t", "\n", "\r"}

None == <<"None">>

\* Python truthiness of a str-or-None value: None and '' are falsy
Truthy(s) == s # None /\ s # <<>>

\* str.upper() and str.lower(), character by character
UpperChar(c) ==
    IF c \in LowerChars
    THEN UpperSeq[CHOOSE i \in DOMAIN LowerSeq : LowerSeq[i] = c]
    ELSE c

LowerChar(c) ==
    IF c \in UpperChars
    THEN LowerSeq[CHOOSE i \in DOMAIN UpperSeq : UpperSeq[i] = c]
    ELSE c

StrUpper(s) == [i \in 1..Len(s) |-> UpperChar(s[i])]

StrLower(s) == [i \in 1..Len(s) |-> LowerChar(s[i])]

\* s.replace(c, ''): every occurrence of the character c removed
RECURSIVE StrRemove(_, _)
StrRemove(s, c) ==
    IF s = <<>> THEN <<>>
    ELSE IF Head(s) = c THEN StrRemove(Tail(s), c)
    ELSE <<Head(s)>> \o StrRemove(Tail(s), c)

RECURSIVE LStrip(_)
LStrip(s) ==
    IF s # <<>> /\ Head(s) \in Whitespace THEN LStrip(Tail(s)) ELSE s

RECURSIVE RStrip(_)
RStrip(s) ==
    IF s # <<>> /\ s[Len(s)] \in Whitespace
    THEN RStrip(SubSeq(s, 1, Len(s) - 1))
    ELSE s

\* s.strip()
StrStrip(s) == RStrip(LStrip(s))

\* s.startswith(p)
StartsWith(s, p) == Len(s) >= Len(p) /\ SubSeq(s, 1, Len(p)) = p

\* s.isdigit(): non-empty and only digits
IsDigitStr(s) == s # <<>> /\ \A i \in 1..Len(s) : s[i] \in DigitChars

\* w in s (substring test)
Contains(s, w) ==
    \E i \in 1..(Len(s) - Len(w) + 1) : SubSeq(s, i, i + Len(w) - 1) = w

\* What a pattern ending in $ may consume of s: all of it, or all but a final
\* newline (Python's $ also matches just before a newline that ends the string)
DollarPrefixes(s) ==
    {s} \cup (IF s # <<>> /\ s[Len(s)] = "\n"
              THEN {SubSeq(s, 1, Len(s) - 1)} ELSE {})

AllIn(s, chars) == \A i \in 1..Len(s) : s[i] \in chars

(***************************************************************************)
(* The validators: each returns <<is_valid, message, score_change>>        *)
(***************************************************************************)
\* BLOCKED_PREFIXES without '0'
BlockedPrefixesWithoutZero == {"1", "6", "8"}

BLOCKED_PREFIXES == {"1", "6", "8", "0"}

PhonePrefix == <<"+","2","1","6">>

\* validate_phone that removes the spaces but not the hyphens
validate_phoneKeepsHyphens(phone) ==
    IF ~Truthy(phone) THEN <<FALSE, "Phone number missing", -20>>
    ELSE
      LET normalized == StrStrip(StrRemove(phone, " "))
          digits == SubSeq(normalized, 5, Len(normalized))
      IN  IF ~StartsWith(normalized, <<"+","2","1","6">>)
            THEN <<FALSE, "Must start with +216", -20>>
          ELSE IF Len(normalized) # 12
            THEN <<FALSE, "Invalid length (must be +216 + 8 digits)", -20>>
          ELSE IF ~IsDigitStr(digits)
            THEN <<FALSE, "Non-digit characters after +216", -20>>
          ELSE IF digits[1] \in {"1", "6", "8", "0"}
            THEN <<FALSE, "Blocked prefix " \o digits[1], -30>>
          ELSE <<TRUE, "Valid Tunisian phone", 15>>

validate_phone(phone) ==
    IF ~Truthy(phone) THEN <<FALSE, "Phone number missing", -20>>
    ELSE
      LET normalized == StrStrip(StrRemove(StrRemove(phone, " "), "-"))
          digits == SubSeq(normalized, 5, Len(normalized))
      IN  IF ~StartsWith(normalized, PhonePrefix)
            THEN <<FALSE, "Must start with +216", -20>>
          ELSE IF Len(normalized) # 12
            THEN <<FALSE, "Invalid length (must be +216 + 8 digits)", -20>>
          ELSE IF ~IsDigitStr(digits)
            THEN <<FALSE, "Non-digit characters after +216", -20>>
          ELSE IF Len(digits) # 8
            THEN <<FALSE, "Must have 8 digits", -20>>
          ELSE IF digits[1] \in BLOCKED_PREFIXES
            THEN <<FALSE, "Blocked prefix " \o digits[1], -30>>
          ELSE <<TRUE, "Valid Tunisian phone", 15>>

\* [a-zA-Z0-9._%+-]
EmailLocalChars == LowerChars \cup UpperChars \cup DigitChars
                     \cup {".", "_", "%", "+", "-"}

\* [a-zA-Z0-9.-]
EmailDomainChars == LowerChars \cup UpperChars \cup DigitChars \cup {".", "-"}

\* re.match(r'^[a-zA-Z0-9._%+-]+@[a-zA-Z0-9.-]+\.[a-zA-Z]{2,}$', email)
EmailPatternMatches(email) ==
    \E u \in DollarPrefixes(email) :
      \E i \in 1..Len(u) : \E j \in (i + 1)..Len(u) :
        /\ u[i] = "@"
        /\ u[j] = "."
        /\ i > 1
        /\ AllIn(SubSeq(u, 1, i - 1), EmailLocalChars)
        /\ j > i + 1
        /\ AllIn(SubSeq(u, i + 1, j - 1), EmailDomainChars)
        /\ Len(u) - j >= 2
        /\ AllIn(SubSeq(u, j + 1, Len(u)), LowerChars \cup UpperChars)

\* the list `suspicious`, in its order: each word as text and as characters
SuspiciousWords ==
    << [word |-> "free",    chars |-> <<"f","r","e","e">>],
       [word |-> "temp",    chars |-> <<"t","e","m","p">>],
       [word |-> "spam",    chars |-> <<"s","p","a","m">>],
       [word |-> "fake",    chars |-> <<"f","a","k","e">>],
       [word |-> "test123", chars |-> <<"t","e","s","t","1","2","3">>],
       [word |-> "test456", chars |-> <<"t","e","s","t","4","5","6">>] >>

\* validate_email that looks for the words in email instead of email.lower()
validate_emailCaseSensitive(email) ==
    IF ~Truthy(email) THEN <<FALSE, "Email missing", -20>>
    ELSE IF ~EmailPatternMatches(email)
      THEN <<FALSE, "Invalid email format", -20>>
    ELSE
      LET hits == {k \in DOMAIN SuspiciousWords :
                     Contains(email, SuspiciousWords[k].chars)}
      IN  IF hits # {}
            THEN LET first == CHOOSE k \in hits : \A m \in hits : k <= m
                 IN  <<FALSE,
                       "Suspicious domain (" \o SuspiciousWords[first].word \o ")",
                       -25>>
          ELSE <<TRUE, "Valid email domain", 15>>

validate_email(email) ==
    IF ~Truthy(email) THEN <<FALSE, "Email missing", -20>>
    ELSE IF ~EmailPatternMatches(email)
      THEN <<FALSE, "Invalid email format", -20>>
    ELSE
      LET email_lower == StrLower(email)
          hits == {k \in DOMAIN SuspiciousWords :
                     Contains(email_lower, SuspiciousWords[k].chars)}
      IN  IF hits # {}
            THEN LET first == CHOOSE k \in hits : \A m \in hits : k <= m
                 IN  <<FALSE,
                       "Suspicious domain (" \o SuspiciousWords[first].word \o ")",
                       -25>>
          ELSE <<TRUE, "Valid email domain", 15>>

\* re.match(r'^[0-9]{8}[A-Z]$', normalized)
RnePatternMatches(normalized) ==
    \E u \in DollarPrefixes(normalized) :
      /\ Len(u) = 9
      /\ AllIn(SubSeq(u, 1, 8), DigitChars)
      /\ u[9] \in UpperChars

\* validate_rne without .replace(' ', '')
validate_rneKeepsSpaces(tax_id) ==
    IF ~Truthy(tax_id) THEN <<FALSE, "Tax ID missing", -25>>
    ELSE
      LET normalized == StrUpper(StrStrip(tax_id))
      IN  IF ~RnePatternMatches(normalized)
            THEN <<FALSE, "Invalid RNE format (must be 8 digits + 1 letter)", -25>>
          ELSE <<TRUE, "Valid RNE format", 20>>

\* validate_rne without .upper()
validate_rneNoUpper(tax_id) ==
    IF ~Truthy(tax_id) THEN <<FALSE, "Tax ID missing", -25>>
    ELSE
      LET normalized == StrStrip(StrRemove(tax_id, " "))
      IN  IF ~RnePatternMatches(normalized)
            THEN <<FALSE, "Invalid RNE format (must be 8 digits + 1 letter)", -25>>
          ELSE <<TRUE, "Valid RNE format", 20>>

validate_rne(tax_id) ==
    IF ~Truthy(tax_id) THEN <<FALSE, "Tax ID missing", -25>>
    ELSE
      LET normalized == StrUpper(StrStrip(StrRemove(tax_id, " ")))
      IN  IF ~RnePatternMatches(normalized)
            THEN <<FALSE, "Invalid RNE format (must be 8 digits + 1 letter)", -25>>
          ELSE <<TRUE, "Valid RNE format", 20>>

\* validate_official_name without .strip()
validate_official_nameNoStrip(official_name) ==
    IF Truthy(official_name)
    THEN <<TRUE, "Official name verified", 10>>
    ELSE <<FALSE, "No official name", 0>>

validate_official_name(official_name) ==
    IF Truthy(official_name) /\ StrStrip(official_name) # <<>>
    THEN <<TRUE, "Official name verified", 10>>
    ELSE <<FALSE, "No official name", 0>>

(***************************************************************************)
(* Reviews: the values of their attributes                                 *)
(***************************************************************************)
PyNone == [kind |-> "none", v |-> 0]

PyInt(n) == [kind |-> "int", v |-> n]

\* a non-empty string that is no number, where a number is expected
PyNonNumeric == [kind |-> "str", v |-> 0]

\* a datetime, counted in hours
PyDatetime(h) == [kind |-> "datetime", v |-> h]

\* hasattr(r, a) and getattr(r, a, default)
HasAttr(r, a) == a \in DOMAIN r

GetAttr(r, a, default) == IF a \in DOMAIN r THEN r[a] ELSE default

\* timedelta(hours=24), in hours
FastReplyHours == 24

RECURSIVE SumRatings(_)
SumRatings(ratings) ==
    IF ratings = <<>> THEN 0 ELSE Head(ratings) + SumRatings(Tail(ratings))

\* f"{total / count:.1f}" for total >= 0: the quotient rounded to one decimal,
\* a tie to the even digit (the ties of a quotient with count < 5 are
\* multiples of 0.25, which a float holds exactly)
FormatAvg(total, count) ==
    LET q == (10 * total) \div count
        twice == 2 * ((10 * total) % count)
        tenths == IF twice > count \/ (twice = count /\ q % 2 = 1)
                  THEN q + 1 ELSE q
    IN  ToString(tenths \div 10) \o "." \o ToString(tenths % 10)

\* ApprovedReviews with the pending reviews kept
ApprovedReviewsAndPending(revs) ==
    SelectSeq(revs, LAMBDA r : GetAttr(r, "status", "approved") \in {"approved", "pending"})

\* approved = [r for r in reviews if getattr(r, 'status', 'approved') == 'approved']
ApprovedReviews(revs) ==
    SelectSeq(revs, LAMBDA r : GetAttr(r, "status", "approved") = "approved")

\* the reviews whose rating enters [float(r.rating) for r in approved if hasattr(r, 'rating')]
RatedReviews(approved) ==
    SelectSeq(approved, LAMBDA r : HasAttr(r, "rating"))

\* float(x) raises TypeError for None and ValueError for a non-numeric string
FloatRaises(x) == x.kind # "int"

FloatError(x) == IF x.kind = "none" THEN "TypeError" ELSE "ValueError"

\* AverageRatingPart with the first rating taken for the average
AverageRatingPartFirstOnly(ratings) ==
    IF ratings = <<>> THEN <<0, <<>>>>
    ELSE
      LET total == ratings[1]
          count == 1
          shown == FormatAvg(total, count)
      IN  IF total >= 4 * count
            THEN <<20, <<"High ratings (" \o shown \o "*) (+20)">>>>
          ELSE IF total >= 3 * count
            THEN <<10, <<"Good ratings (" \o shown \o "*) (+10)">>>>
          ELSE <<-15, <<"Low ratings (" \o shown \o "*) (-15)">>>>

\* AverageRatingPart with > where the code has >=
AverageRatingPartStrict(ratings) ==
    IF ratings = <<>> THEN <<0, <<>>>>
    ELSE
      LET total == SumRatings(ratings)
          count == Len(ratings)
          shown == FormatAvg(total, count)
      IN  IF total > 4 * count
            THEN <<20, <<"High ratings (" \o shown \o "*) (+20)">>>>
          ELSE IF total > 3 * count
            THEN <<10, <<"Good ratings (" \o shown \o "*) (+10)">>>>
          ELSE <<-15, <<"Low ratings (" \o shown \o "*) (-15)">>>>

\* lines 148-159: <<score change, reasons>> of the average of `ratings`
AverageRatingPart(ratings) ==
    IF ratings = <<>> THEN <<0, <<>>>>
    ELSE
      LET total == SumRatings(ratings)
          count == Len(ratings)
          shown == FormatAvg(total, count)
      IN  \* avg_rating >= 4.0, with avg_rating = total / count; "*" stands for
          \* the star U+2605 of the messages
          IF total >= 4 * count
            THEN <<20, <<"High ratings (" \o shown \o "*) (+20)">>>>
          ELSE IF total >= 3 * count
            THEN <<10, <<"Good ratings (" \o shown \o "*) (+10)">>>>
          ELSE <<-15, <<"Low ratings (" \o shown \o "*) (-15)">>>>

\* lines 164-170: whether the loop counts r as a fast reply; a failing
\* subtraction (created_at missing or None) is swallowed by the bare except
\* IsFastReply with a reply after exactly 24 hours counted as well
IsFastReplyInclusive(r) ==
    /\ HasAttr(r, "reply") /\ Truthy(r.reply)
    /\ HasAttr(r, "reply_at") /\ r.reply_at.kind = "datetime"
    /\ HasAttr(r, "created_at") /\ r.created_at.kind = "datetime"
    /\ r.reply_at.v - r.created_at.v <= FastReplyHours

IsFastReply(r) ==
    /\ HasAttr(r, "reply") /\ Truthy(r.reply)
    /\ HasAttr(r, "reply_at") /\ r.reply_at.kind = "datetime"
    /\ HasAttr(r, "created_at") /\ r.created_at.kind = "datetime"
    /\ r.reply_at.v - r.created_at.v < FastReplyHours

\* FastReplyPart with one message for each fast reply
FastReplyPartMessagePerReply(approved) ==
    LET fast_replies == Len(SelectSeq(approved, IsFastReply))
    IN  IF fast_replies > 0
        THEN <<10, [i \in 1..fast_replies |->
                      "Fast replies (" \o ToString(i) \o ") (+10)"]>>
        ELSE <<0, <<>>>>

\* lines 162-174
FastReplyPart(approved) ==
    LET fast_replies == Len(SelectSeq(approved, IsFastReply))
    IN  IF fast_replies > 0
        THEN <<10, <<"Fast replies (" \o ToString(fast_replies) \o ") (+10)">>>>
        ELSE <<0, <<>>>>

\* r.re_rating is truthy: a non-zero int or a non-empty string
ReRatingTruthy(r) ==
    HasAttr(r, "re_rating")
      /\ (r.re_rating.kind = "str" \/ (r.re_rating.kind = "int" /\ r.re_rating.v # 0))

\* r.re_rating >= 4 raises TypeError when re_rating is a string
ResolutionRaises(approved) ==
    \E i \in 1..Len(approved) :
        ReRatingTruthy(approved[i]) /\ approved[i].re_rating.kind = "str"

\* IsResolution with a re-rating of exactly 4 left out
IsResolutionAboveFour(r) == ReRatingTruthy(r) /\ r.re_rating.kind = "int" /\ r.re_rating.v > 4

IsResolution(r) == ReRatingTruthy(r) /\ r.re_rating.kind = "int" /\ r.re_rating.v >= 4

\* lines 177-184
ResolutionPart(approved) ==
    LET resolutions == Len(SelectSeq(approved, IsResolution))
    IN  IF resolutions > 0
        THEN <<15, <<"Good resolutions (" \o ToString(resolutions) \o ") (+15)">>>>
        ELSE <<0, <<>>>>

(***************************************************************************)
(* State: the arguments of the call, its position, the locals of           *)
(* calculate_trust_score (score, reasons, details) and of                  *)
(* calculate_from_reviews (approved, score_change, review_reasons), and    *)
(* the outcome of the call.  These belong to the call that is running;    *)
(* `suspended` holds the same values for the calls of the other request    *)
(* threads, `todo` the batches of calls still to be made (a batch is the   *)
(* calls of requests served at the same time) and `history` the calls      *)
(* that were completed in earlier batches.                                 *)
(***************************************************************************)
VARIABLES agency, reviews, pc, caller, score, reasons, details,
          approved, score_change, review_reasons, result,
          suspended, todo, history,
          csv, agencies, pendings, review_rows, inflight,
          served, response, incoming

vars == <<agency, reviews, pc, caller, score, reasons, details,
          approved, score_change, review_reasons, result,
          suspended, todo, history,
          csv, agencies, pendings, review_rows, inflight,
          served, response, incoming>>

\* what the calls of the calculator work on
calls == <<agency, reviews, pc, caller, score, reasons, details,
           approved, score_change, review_reasons, result,
           suspended, todo, history>>

\* what the request handlers work on: the rows of the agencies CSV file, the
\* rows of the tables agencies, pending_agencies and reviews, the requests
\* of create_review that are between their duplicate check and their
\* insert, the number of requests served so far, the response to the last of
\* them, and the requests that clients may send
stores == <<csv, agencies, pendings, review_rows, inflight,
            served, response, incoming>>

\* the `reviews` argument: None or a list
NoReviewList == [kind |-> "none", items |-> <<>>]

ReviewList(items) == [kind |-> "list", items |-> items]

\* Python truthiness of the `reviews` argument: None and [] are falsy
ReviewsTruthy(revs) == revs.kind = "list" /\ revs.items # <<>>

\* the outcome of a call: none yet, a returned value, or a raised exception
NoResult == [kind |-> "none"]

Returned(value) == [kind |-> "return", value |-> value]

Raised(error) == [kind |-> "raise", error |-> error]

\* lines 211, 221, 231, 241: the field read from a dict (agency.get(f, ''))
\* or from an object (getattr(agency, f, '')); a missing field reads as ''
GetField(a, f) == IF f \in DOMAIN a THEN a[f] ELSE <<>>

\* a dict with the single key k
Entry(k, val) == [x \in {k} |-> val]

\* Clamp without max(0, .): only min(100, score)
ClampCeilingOnly(x) == IF x < 100 THEN x ELSE 100

\* min(100, max(0, score))
Clamp(x) ==
    LET lower == IF x > 0 THEN x ELSE 0
    IN  IF lower < 100 THEN lower ELSE 100

\* f"(+{n})" and f"({n})"
Plus(n) == "(+" \o ToString(n) \o ")"

Paren(n) == "(" \o ToString(n) \o ")"

\* the locals of calculate_from_reviews before it is entered
ReviewLocalsUnset ==
    /\ approved = <<>>
    /\ score_change = 0
    /\ review_reasons = <<>>

\* CallCalculateTrustScore with a list of reasons that outlives the call
CallCalculateTrustScoreKeepsReasons ==
    /\ pc = "idle"
    /\ pc' = "phone"
    /\ caller' = "calculate_trust_score"
    /\ score' = 50
    /\ details' = <<>>
    /\ UNCHANGED <<agency, reviews, suspended, todo, history, stores, reasons, approved, score_change, review_reasons, result>>

\* calculate_trust_score(agency, reviews) is entered: lines 206-208
CallCalculateTrustScore ==
    /\ pc = "idle"
    /\ pc' = "phone"
    /\ caller' = "calculate_trust_score"
    /\ score' = 50
    /\ reasons' = <<>>
    /\ details' = <<>>
    /\ UNCHANGED <<agency, reviews, suspended, todo, history, stores, approved, score_change, review_reasons, result>>

\* lines 210-218
PhoneValidation ==
    /\ pc = "phone"
    /\ LET r == validate_phone(GetField(agency, "phone"))
       IN  /\ score' = score + r[3]
           /\ details' = details @@ Entry("phone",
                             [valid |-> r[1], message |-> r[2], score |-> r[3]])
           /\ reasons' = Append(reasons,
                             IF r[1] THEN "Valid phone format " \o Plus(r[3])
                             ELSE "Invalid phone: " \o r[2] \o " " \o Paren(r[3]))
    /\ pc' = "email"
    /\ UNCHANGED <<agency, reviews, suspended, todo, history, stores, caller, approved, score_change, review_reasons, result>>

\* lines 220-228
EmailValidation ==
    /\ pc = "email"
    /\ LET r == validate_email(GetField(agency, "email"))
       IN  /\ score' = score + r[3]
           /\ details' = details @@ Entry("email",
                             [valid |-> r[1], message |-> r[2], score |-> r[3]])
           /\ reasons' = Append(reasons,
                             IF r[1] THEN "Valid email domain " \o Plus(r[3])
                             ELSE "Invalid email: " \o r[2] \o " " \o Paren(r[3]))
    /\ pc' = "rne"
    /\ UNCHANGED <<agency, reviews, suspended, todo, history, stores, caller, approved, score_change, review_reasons, result>>

\* lines 230-238
RneValidation ==
    /\ pc = "rne"
    /\ LET r == validate_rne(GetField(agency, "tax_id"))
       IN  /\ score' = score + r[3]
           /\ details' = details @@ Entry("rne",
                             [valid |-> r[1], message |-> r[2], score |-> r[3]])
           /\ reasons' = Append(reasons,
                             IF r[1] THEN "Valid RNE format " \o Plus(r[3])
                             ELSE "Invalid RNE: " \o r[2] \o " " \o Paren(r[3]))
    /\ pc' = "official_name"
    /\ UNCHANGED <<agency, reviews, suspended, todo, history, stores, caller, approved, score_change, review_reasons, result>>

\* lines 240-246
OfficialName ==
    /\ pc = "official_name"
    /\ LET r == validate_official_name(GetField(agency, "official_name"))
       IN  /\ score' = IF r[1] THEN score + r[3] ELSE score
           /\ reasons' = IF r[1]
                         THEN Append(reasons, "Official name verified " \o Plus(r[3]))
                         ELSE reasons
           /\ details' = details @@ Entry("official_name",
                             [has_name |-> r[1], score |-> r[3]])
    /\ pc' = "reviews"
    /\ UNCHANGED <<agency, reviews, suspended, todo, history, stores, caller, approved, score_change, review_reasons, result>>

\* lines 248-255: `if reviews:` calls calculate_from_reviews, else records 0
ReviewsAnalysis ==
    /\ pc = "reviews"
    /\ IF ReviewsTruthy(reviews)
       THEN /\ pc' = "filter"
            /\ UNCHANGED details
       ELSE /\ pc' = "normalize"
            /\ details' = details @@ Entry("reviews", [score |-> 0, count |-> 0])
    /\ UNCHANGED <<agency, reviews, suspended, todo, history, stores, caller, score, reasons,
                   approved, score_change, review_reasons, result>>

\* calculate_from_reviews(reviews) is called on its own
CallCalculateFromReviews ==
    /\ pc = "idle"
    /\ pc' = "filter"
    /\ caller' = "direct"
    /\ UNCHANGED <<agency, reviews, suspended, todo, history, stores, score, reasons, details,
                   approved, score_change, review_reasons, result>>

\* lines 132-144
FilterApproved ==
    /\ pc = "filter"
    /\ score_change' = 0
    /\ IF ~ReviewsTruthy(reviews)
       THEN /\ review_reasons' = <<"No reviews yet">>
            /\ approved' = <<>>
            /\ pc' = "return_reviews"
       ELSE /\ approved' = ApprovedReviews(reviews.items)
            /\ IF approved' = <<>>
               THEN /\ review_reasons' = <<"No approved reviews">>
                    /\ pc' = "return_reviews"
               ELSE /\ review_reasons' = <<>>
                    /\ pc' = "average"
    /\ UNCHANGED <<agency, reviews, suspended, todo, history, stores, caller, score, reasons, details, result>>

\* lines 146-159; float(r.rating) may raise, which ends the call
AverageRating ==
    /\ pc = "average"
    /\ LET rated == RatedReviews(approved)
           bad == {i \in 1..Len(rated) : FloatRaises(rated[i].rating)}
       IN  IF bad # {}
           THEN LET first == CHOOSE i \in bad : \A j \in bad : i <= j
                IN  /\ result' = Raised(FloatError(rated[first].rating))
                    /\ pc' = "raised"
                    /\ UNCHANGED <<score_change, review_reasons>>
           ELSE LET part == AverageRatingPart([i \in 1..Len(rated) |-> rated[i].rating.v])
                IN  /\ score_change' = score_change + part[1]
                    /\ review_reasons' = review_reasons \o part[2]
                    /\ pc' = "fast_replies"
                    /\ UNCHANGED result
    /\ UNCHANGED <<agency, reviews, suspended, todo, history, stores, caller, score, reasons, details, approved>>

\* lines 161-174
FastReplies ==
    /\ pc = "fast_replies"
    /\ LET part == FastReplyPart(approved)
       IN  /\ score_change' = score_change + part[1]
           /\ review_reasons' = review_reasons \o part[2]
    /\ pc' = "resolutions"
    /\ UNCHANGED <<agency, reviews, suspended, todo, history, stores, caller, score, reasons, details, approved, result>>

\* lines 176-184; r.re_rating >= 4 may raise, which ends the call
Resolutions ==
    /\ pc = "resolutions"
    /\ IF ResolutionRaises(approved)
       THEN /\ result' = Raised("TypeError")
            /\ pc' = "raised"
            /\ UNCHANGED <<score_change, review_reasons>>
       ELSE LET part == ResolutionPart(approved)
            IN  /\ score_change' = score_change + part[1]
                /\ review_reasons' = review_reasons \o part[2]
                /\ pc' = "return_reviews"
                /\ UNCHANGED result
    /\ UNCHANGED <<agency, reviews, suspended, todo, history, stores, caller, score, reasons, details, approved>>

\* ReturnFromReviews with the review messages put before the other reasons
ReturnFromReviewsReasonsFirst ==
    /\ pc = "return_reviews"
    /\ IF caller = "direct"
       THEN /\ result' = Returned(<<score_change, review_reasons>>)
            /\ pc' = "done"
            /\ UNCHANGED <<score, reasons, details>>
       ELSE /\ score' = score + score_change
            /\ reasons' = review_reasons \o reasons
            /\ details' = details @@ Entry("reviews",
                              [score |-> score_change, count |-> Len(reviews.items)])
            /\ pc' = "normalize"
            /\ UNCHANGED result
    /\ UNCHANGED <<agency, reviews, suspended, todo, history, stores, caller, approved, score_change, review_reasons>>

\* ReturnFromReviews without `score += review_score`
ReturnFromReviewsDropsScore ==
    /\ pc = "return_reviews"
    /\ IF caller = "direct"
       THEN /\ result' = Returned(<<score_change, review_reasons>>)
            /\ pc' = "done"
            /\ UNCHANGED <<score, reasons, details>>
       ELSE /\ score' = score
            /\ reasons' = reasons \o review_reasons
            /\ details' = details @@ Entry("reviews",
                              [score |-> score_change, count |-> Len(reviews.items)])
            /\ pc' = "normalize"
            /\ UNCHANGED result
    /\ UNCHANGED <<agency, reviews, suspended, todo, history, stores, caller, approved, score_change, review_reasons>>

\* line 186 (and 137, 144), and in the caller lines 250-253
ReturnFromReviews ==
    /\ pc = "return_reviews"
    /\ IF caller = "direct"
       THEN /\ result' = Returned(<<score_change, review_reasons>>)
            /\ pc' = "done"
            /\ UNCHANGED <<score, reasons, details>>
       ELSE /\ score' = score + score_change
            /\ reasons' = reasons \o review_reasons
            /\ details' = details @@ Entry("reviews",
                              [score |-> score_change, count |-> Len(reviews.items)])
            /\ pc' = "normalize"
            /\ UNCHANGED result
    /\ UNCHANGED <<agency, reviews, suspended, todo, history, stores, caller, approved, score_change, review_reasons>>

\* lines 257-265
NormalizeScore ==
    /\ pc = "normalize"
    /\ result' = Returned([score |-> Clamp(score), reasons |-> reasons,
                           details |-> details, base_score |-> 50])
    /\ pc' = "done"
    /\ UNCHANGED <<agency, reviews, suspended, todo, history, stores, caller, score, reasons, details,
                   approved, score_change, review_reasons>>

\* the values of the running call
Running ==
    [agency |-> agency, reviews |-> reviews, pc |-> pc, caller |-> caller,
     score |-> score, reasons |-> reasons, details |-> details,
     approved |-> approved, score_change |-> score_change,
     review_reasons |-> review_reasons, result |-> result]

\* a call that has not been entered yet
NewCall(a, revs) ==
    [agency |-> a, reviews |-> revs, pc |-> "idle", caller |-> "none",
     score |-> 0, reasons |-> <<>>, details |-> <<>>,
     approved |-> <<>>, score_change |-> 0,
     review_reasons |-> <<>>, result |-> NoResult]

Finished(c) == c.pc \in {"done", "raised"}

\* what a completed call was given and what came out of it
Outcome(c) ==
    [agency |-> c.agency, reviews |-> c.reviews, caller |-> c.caller,
     result |-> c.result]

\* Switch with one list of reasons shared by all the calls: it is not put
\* aside with the call that is suspended
SwitchSharedReasons ==
    \E i \in DOMAIN suspended :
        /\ ~Finished(suspended[i])
        /\ agency' = suspended[i].agency
        /\ reviews' = suspended[i].reviews
        /\ pc' = suspended[i].pc
        /\ caller' = suspended[i].caller
        /\ score' = suspended[i].score
        /\ details' = suspended[i].details
        /\ approved' = suspended[i].approved
        /\ score_change' = suspended[i].score_change
        /\ review_reasons' = suspended[i].review_reasons
        /\ result' = suspended[i].result
        /\ suspended' = [suspended EXCEPT ![i] = Running]
        /\ UNCHANGED <<reasons, todo, history, stores>>

\* the server is threaded: the running call is suspended between two of its
\* steps and a call of another request goes on
Switch ==
    \E i \in DOMAIN suspended :
        /\ ~Finished(suspended[i])
        /\ agency' = suspended[i].agency
        /\ reviews' = suspended[i].reviews
        /\ pc' = suspended[i].pc
        /\ caller' = suspended[i].caller
        /\ score' = suspended[i].score
        /\ reasons' = suspended[i].reasons
        /\ details' = suspended[i].details
        /\ approved' = suspended[i].approved
        /\ score_change' = suspended[i].score_change
        /\ review_reasons' = suspended[i].review_reasons
        /\ result' = suspended[i].result
        /\ suspended' = [suspended EXCEPT ![i] = Running]
        /\ UNCHANGED <<todo, history, stores>>

\* the calls of a batch are over and the caller goes on to its next calls:
\* the loop of get_agencies calls the calculator for one agency after the
\* other.  The storage of the locals is not cleared between two calls.
NextBatch ==
    /\ pc \in {"done", "raised"}
    /\ \A i \in DOMAIN suspended : Finished(suspended[i])
    /\ todo # <<>>
    /\ history' = history \o <<Outcome(Running)>>
                          \o [i \in DOMAIN suspended |-> Outcome(suspended[i])]
    /\ agency' = Head(todo)[1].agency
    /\ reviews' = Head(todo)[1].reviews
    /\ pc' = "idle"
    /\ caller' = "none"
    /\ result' = NoResult
    /\ suspended' = [i \in 1..(Len(Head(todo)) - 1) |->
                        NewCall(Head(todo)[i + 1].agency, Head(todo)[i + 1].reviews)]
    /\ todo' = Tail(todo)
    /\ UNCHANGED <<score, reasons, details, approved, score_change, review_reasons, stores>>

(***************************************************************************)
(* AgencyService: the agencies kept in the CSV file                        *)
(***************************************************************************)
\* how many requests the server handles in a run
MaxRequests == 3

\* the response to a request: which handler answered which request, with
\* which status (the code of abort() or of the returned response, 500 for an
\* exception that nothing catches) and which body
NoBody == [kind |-> "none"]

NoResponse == [op |-> "none", request |-> [op |-> "none"], status |-> 0, body |-> NoBody]

Response(op, request, status, body) ==
    [op |-> op, request |-> request, status |-> status, body |-> body]

\* dict.get(f): None when the key is missing
DictGet(d, f) == IF f \in DOMAIN d THEN d[f] ELSE None

TUNISIAN_GOVERNORATES ==
    { <<"T","u","n","i","s">>,
      <<"A","r","i","a","n","a">>,
      <<"B","e","n"," ","A","r","o","u","s">>,
      <<"M","a","n","o","u","b","a">>,
      <<"N","a","b","e","u","l">>,
      <<"Z","a","g","h","o","u","a","n">>,
      <<"B","i","z","e","r","t","e">>,
      <<"B","e","j","a">>,
      <<"J","e","n","d","o","u","b","a">>,
      <<"K","e","f">>,
      <<"S","i","l","i","a","n","a">>,
      <<"S","o","u","s","s","e">>,
      <<"M","o","n","a","s","t","i","r">>,
      <<"M","a","h","d","i","a">>,
      <<"S","f","a","x">>,
      <<"K","a","i","r","o","u","a","n">>,
      <<"K","a","s","s","e","r","i","n","e">>,
      <<"S","i","d","i"," ","B","o","u","z","i","d">>,
      <<"G","a","b","e","s">>,
      <<"M","e","d","e","n","i","n","e">>,
      <<"T","a","t","a","o","u","i","n","e">>,
      <<"G","a","f","s","a">>,
      <<"T","o","z","e","u","r">>,
      <<"K","e","b","i","l","i">> }

\* the list `govs` of calculate_trust_score
TopGovernorates ==
    { <<"T","U","N","I","S">>,
      <<"A","R","I","N","A">>,
      <<"B","E","N"," ","A","R","O","U","S">>,
      <<"S","O","U","S","S","E">>,
      <<"S","F","A","X">> }

travel_keywords ==
    { <<"V","O","Y","A","G","E","S">>,
      <<"T","R","A","V","E","L">>,
      <<"B","O","O","K","I","N","G">>,
      <<"A","G","E","N","C","E">>,
      <<"A","G","E","N","C","Y">>,
      <<"T","O","U","R","S">> }

Sarl == <<"S","A","R","L">>

\* str.isalpha() of one character
IsAlpha(c) == c \in LowerChars \cup UpperChars

\* re.sub(r'[\s\-]', '', phone): every whitespace character and every hyphen
\* is removed, wherever it stands
RemoveSpacesAndHyphens(phone) ==
    SelectSeq(phone, LAMBDA c : c \notin Whitespace \cup {"-"})

\* AgencyService.validate_phone: <<valid, msg>>
AgencyService_validate_phone(phone) ==
    LET p == RemoveSpacesAndHyphens(phone)
        digits == SubSeq(p, 5, Len(p))
    IN  IF ~StartsWith(p, PhonePrefix) \/ Len(p) # 12
        THEN <<FALSE, "Format +216XXXXXXXX">>
        ELSE IF Len(digits) # 8 \/ ~IsDigitStr(digits)
        THEN <<FALSE, "8 digits only">>
        ELSE IF digits[1] \in {"1", "6", "8", "0"}
        THEN <<FALSE, "Blocked prefix">>
        ELSE <<TRUE, "OK">>

\* re.match(r'^[a-zA-Z0-9._%+-]+@[a-zA-Z0-9.-]+\.[a-z]{2,}$', email): the
\* pattern of calculate_trust_score, whose last part is in lower case
LowerTldPatternMatches(email) ==
    \E u \in DollarPrefixes(email) :
      \E i \in 1..Len(u) : \E j \in (i + 1)..Len(u) :
        /\ u[i] = "@"
        /\ u[j] = "."
        /\ i > 1
        /\ AllIn(SubSeq(u, 1, i - 1), EmailLocalChars)
        /\ j > i + 1
        /\ AllIn(SubSeq(u, i + 1, j - 1), EmailDomainChars)
        /\ Len(u) - j >= 2
        /\ AllIn(SubSeq(u, j + 1, Len(u)), LowerChars)

\* the email part of calculate_trust_score (lines 98-107)
EmailPoints(email) ==
    IF email # <<>> /\ LowerTldPatternMatches(email)
    THEN IF \E k \in 1..4 : Contains(StrLower(email), SuspiciousWords[k].chars)
         THEN -20
         ELSE 10
    ELSE -15

\* the company name part (lines 110-119)
NamePoints(company_name) ==
    LET name == StrUpper(company_name)
    IN  (IF \E kw \in travel_keywords : Contains(name, kw) THEN 20 ELSE 0)
        + (IF Contains(name, Sarl) THEN 15 ELSE 0)
        + (IF Len(name) < 3 THEN -20 ELSE 0)

\* the tax_id part (lines 128-131)
TaxIdPoints(tax_id) ==
    IF Len(StrRemove(tax_id, " ")) >= 8 /\ \E i \in 1..Len(tax_id) : IsAlpha(tax_id[i])
    THEN 10
    ELSE 0

\* AgencyService.calculate_trust_score of an agency that has all its fields:
\* <<score, fraud_risk>>
AgencyService_calculate_trust_score(a) ==
    LET sum == (IF AgencyService_validate_phone(a.phone)[1] THEN 25 ELSE -30)
               + EmailPoints(a.email)
               + NamePoints(a.company_name)
               + (IF a.governorate \in TopGovernorates THEN 15 ELSE 0)
               + TaxIdPoints(a.tax_id)
        s == Clamp(sum)
    IN  <<s, s < 40>>

\* str.zfill(width): the zeros go after a leading sign
zfill(s, width) ==
    IF Len(s) >= width
    THEN s
    ELSE LET zeros == [i \in 1..(width - Len(s)) |-> "0"]
         IN  IF s # <<>> /\ s[1] \in {"+", "-"}
             THEN <<s[1]>> \o zeros \o Tail(s)
             ELSE zeros \o s

\* AgencyService.pad_rne
pad_rne(rne) ==
    LET r == StrStrip(rne)
    IN  IF Len(r) = 7 /\ IsAlpha(r[Len(r)])
        THEN r
        ELSE IF \E i \in 1..Len(r) : IsAlpha(r[i])
        THEN zfill(r, 9)
        ELSE zfill(r, 8)

\* save_csv writes fraud_risk as str(...).lower() and phone_valid as str(...)
CsvRow(a) ==
    [tax_id |-> a.tax_id, company_name |-> a.company_name,
     governorate |-> a.governorate, email |-> a.email, phone |-> a.phone,
     phone_valid |-> IF a.phone_valid THEN "True" ELSE "False",
     trust_score |-> a.trust_score,
     fraud_risk |-> IF a.fraud_risk THEN "true" ELSE "false"]

\* save_csv: an empty list is not written and the file stays what it was
save_csv(list, file) ==
    IF list = <<>> THEN file ELSE [i \in DOMAIN list |-> CsvRow(list[i])]

\* load_csv: the dicts of the rows of the file
load_csv(file) ==
    [i \in DOMAIN file |->
        [tax_id |-> file[i].tax_id, company_name |-> file[i].company_name,
         governorate |-> file[i].governorate, email |-> file[i].email,
         phone |-> file[i].phone,
         phone_valid |-> (file[i].phone_valid \in {"True", "true"}),
         trust_score |-> file[i].trust_score,
         fraud_risk |-> (file[i].fraud_risk \in {"True", "true"})]]

\* is_duplicate that looks at the first stored agency only
is_duplicateFirstOnly(tax_id, file) ==
    file # <<>> /\ load_csv(file)[1].tax_id = tax_id

\* AgencyService.is_duplicate
is_duplicate(tax_id, file) ==
    \E i \in DOMAIN file : load_csv(file)[i].tax_id = tax_id

\* validate_agency_data: 0 when the data pass, else the code of the abort
validate_agency_data(data) ==
    IF \E f \in {"company_name", "governorate", "email", "phone"} : ~Truthy(DictGet(data, f))
    THEN 400
    ELSE IF data.governorate \notin TUNISIAN_GOVERNORATES
    THEN 400
    ELSE IF ~EmailPatternMatches(data.email)
    THEN 400
    ELSE IF ~AgencyService_validate_phone(data.phone)[1]
    THEN 400
    ELSE 0

\* the dict new_agency of add_agency (lines 189-200)
NewAgency(data) ==
    LET scored == AgencyService_calculate_trust_score(data)
    IN  [tax_id |-> pad_rne(data.tax_id), company_name |-> data.company_name,
         governorate |-> data.governorate, email |-> data.email,
         phone |-> data.phone,
         phone_valid |-> AgencyService_validate_phone(data.phone)[1],
         trust_score |-> scored[1], fraud_risk |-> scored[2]]

\* the server is waiting for requests and has handled fewer than MaxRequests
Serving == pc = "serve" /\ served < MaxRequests

\* the request has been handled
Respond(op, request, status, body) ==
    /\ response' = Response(op, request, status, body)
    /\ served' = served + 1

\* AgencyService.add_agency
AddAgency ==
    \E req \in incoming :
        /\ Serving
        /\ req.op = "add_agency"
        /\ LET data == req.data
               tax_id == DictGet(data, "tax_id")
           IN  IF ~Truthy(tax_id)
               THEN /\ Respond("add_agency", req, 400, NoBody)
                    /\ UNCHANGED csv
               ELSE IF is_duplicate(pad_rne(tax_id), csv)
               THEN /\ Respond("add_agency", req, 409, NoBody)
                    /\ UNCHANGED csv
               ELSE IF validate_agency_data(data) # 0
               THEN /\ Respond("add_agency", req, validate_agency_data(data), NoBody)
                    /\ UNCHANGED csv
               ELSE /\ csv' = save_csv(Append(load_csv(csv), NewAgency(data)), csv)
                    /\ Respond("add_agency", req, 200,
                               [tax_id |-> NewAgency(data).tax_id,
                                trust_score |-> NewAgency(data).trust_score,
                                fraud_risk |-> NewAgency(data).fraud_risk])
        /\ UNCHANGED <<calls, agencies, pendings, review_rows, inflight, incoming>>

\* the agency of update_agency after lines 219-230: the allowed keys of
\* update_data are taken over and the agency is scored again
Updated(a, update_data) ==
    LET new == [f \in DOMAIN a |->
                   IF f \in {"company_name", "phone", "email", "governorate"}
                      /\ f \in DOMAIN update_data
                   THEN update_data[f]
                   ELSE a[f]]
        scored == AgencyService_calculate_trust_score(new)
    IN  [new EXCEPT !.trust_score = scored[1], !.fraud_risk = scored[2]]

\* AgencyService.update_agency
UpdateAgency ==
    \E req \in incoming :
        /\ Serving
        /\ req.op = "update_agency"
        /\ LET list == load_csv(csv)
               found == {i \in DOMAIN list : list[i].tax_id = req.tax_id}
           IN  IF found = {}
               THEN /\ Respond("update_agency", req, 404, NoBody)
                    /\ UNCHANGED csv
               ELSE LET i == CHOOSE k \in found : \A m \in found : k <= m
                    IN  /\ csv' = save_csv([list EXCEPT ![i] = Updated(list[i], req.data)], csv)
                        /\ Respond("update_agency", req, 200, Updated(list[i], req.data))
        /\ UNCHANGED <<calls, agencies, pendings, review_rows, inflight, incoming>>

\* AgencyService.delete_agency
DeleteAgency ==
    \E req \in incoming :
        /\ Serving
        /\ req.op = "delete_agency"
        /\ csv' = save_csv(SelectSeq(load_csv(csv), LAMBDA a : a.tax_id # req.tax_id), csv)
        /\ Respond("delete_agency", req, 204, NoBody)
        /\ UNCHANGED <<calls, agencies, pendings, review_rows, inflight, incoming>>


(***************************************************************************)
(* The tables agencies, pending_agencies and reviews and their routes      *)
(***************************************************************************)
\* a NULL agency_id
NoAgencyId == "NULL"

\* f"A-{id:03d}"
FormatAgencyId(id) ==
    "A-" \o (IF id < 10 THEN "00" ELSE IF id < 100 THEN "0" ELSE "") \o ToString(id)

\* the id that the database gives to a new row: one more than the largest
NextRowId(rows) ==
    IF rows = <<>>
    THEN 1
    ELSE 1 + (CHOOSE m \in {rows[i].id : i \in DOMAIN rows} :
                 \A i \in DOMAIN rows : rows[i].id <= m)

\* unique=True of Agency.agency_id and Agency.tax_id (models.py lines 13 and
\* 16): no two rows with the same tax_id, nor with the same agency_id unless
\* it is NULL
AgencyConstraintsHold(rows) ==
    \A i, j \in DOMAIN rows :
        i # j => /\ rows[i].tax_id # rows[j].tax_id
                 /\ \/ rows[i].agency_id # rows[j].agency_id
                    \/ rows[i].agency_id = NoAgencyId

\* the Agency built at lines 290-307 of approve_pending_agency: its id is not
\* known before the insert, so that its agency_id is "A-001"
AgencyOfPending(p, id) ==
    [id |-> id, agency_id |-> "A-001", tax_id |-> p.agency_tax_id,
     company_name |-> p.company_name, official_name |-> p.official_name,
     email |-> p.email, phone |-> p.phone, status |-> "approved"]

\* approve_pending_agency: the first commit inserts the agency as "A-001" and
\* deletes the pending record, the second one gives it the agency_id of its
\* row id; a commit that breaks a constraint raises IntegrityError
ApprovePendingAgency ==
    \E req \in incoming :
        /\ Serving
        /\ req.op = "approve_pending_agency"
        /\ LET found == {p \in pendings : p.pending_id = req.pending_id /\ p.status = "pending"}
           IN  IF found = {}
               THEN /\ Respond("approve_pending_agency", req, 404, NoBody)
                    /\ UNCHANGED <<agencies, pendings>>
               ELSE LET p == CHOOSE q \in found : TRUE
                        id == NextRowId(agencies)
                        inserted == Append(agencies, AgencyOfPending(p, id))
                        renamed == [inserted EXCEPT ![Len(inserted)].agency_id = FormatAgencyId(id)]
                    IN  IF ~AgencyConstraintsHold(inserted)
                        THEN /\ Respond("approve_pending_agency", req, 500, NoBody)
                             /\ UNCHANGED <<agencies, pendings>>
                        ELSE IF ~AgencyConstraintsHold(renamed)
                        THEN /\ agencies' = inserted
                             /\ pendings' = pendings \ {p}
                             /\ Respond("approve_pending_agency", req, 500, NoBody)
                        ELSE /\ agencies' = renamed
                             /\ pendings' = pendings \ {p}
                             /\ Respond("approve_pending_agency", req, 200,
                                        [agency_id |-> FormatAgencyId(id)])
        /\ UNCHANGED <<calls, csv, review_rows, inflight, incoming>>

\* the users of the table users that are clients
Clients == {1, 2}

spam_words ==
    { <<"a","m","a","z","i","n","g">>,
      <<"p","e","r","f","e","c","t">>,
      <<"b","e","s","t"," ","e","v","e","r">>,
      <<"5","*","*","*","*","*">> }

suspicious_domains ==
    { <<"g","m","a","i","l",".","c","o","m">>,
      <<"y","a","h","o","o",".","c","o","m">>,
      <<"h","o","t","m","a","i","l",".","c","o","m">>,
      <<".","t","n">>,
      <<".","f","r">> }

\* Cardinality of a set of truth values counted per word
CountWords(words, text) == Cardinality({w \in words : Contains(text, w)})

\* ReviewGuardian.is_suspicious of a payload that has a comment, a rating
\* and a customer_email
is_suspicious(data) ==
    LET spam == IF CountWords(spam_words, StrLower(data.comment)) > 2 THEN 2 ELSE 0
        short == IF Len(data.comment) < 20 /\ data.rating = 5 THEN 1 ELSE 0
        domain == IF \E d \in suspicious_domains : Contains(data.customer_email, d)
                  THEN 1 ELSE 0
    IN  spam + short + domain >= 3

\* lines 24-25 of create_review: strip, remove the hyphens, upper case
NormTax(raw) == StrUpper(StrRemove(StrStrip(raw), "-"))

\* lines 37-39: the agencies whose tax_id, hyphens removed and in upper
\* case, is norm_tax
AgenciesOfTax(norm_tax) ==
    {i \in DOMAIN agencies : StrUpper(StrRemove(agencies[i].tax_id, "-")) = norm_tax}

First(S) == CHOOSE k \in S : \A m \in S : k <= m

\* lines 43-46: the client has a review for the agency
HasReview(client, agency_id, rows) ==
    \E i \in DOMAIN rows : rows[i].client_id = client /\ rows[i].agency_id = agency_id

\* what lines 19-52 of create_review answer: 0 when they let the request
\* through, 500 for the KeyError of a payload without rating
CreateReviewStatus(req) ==
    LET data == req.data
        raw == IF "agency_tax_id" \in DOMAIN data THEN data.agency_tax_id ELSE <<>>
        norm_tax == NormTax(raw)
    IN  IF DOMAIN data = {} THEN 400
        ELSE IF norm_tax = <<>> THEN 400
        ELSE IF ~RnePatternMatches(norm_tax) THEN 400
        ELSE IF AgenciesOfTax(norm_tax) = {} THEN 404
        ELSE IF HasReview(req.client, agencies[First(AgenciesOfTax(norm_tax))].agency_id,
                          review_rows) THEN 409
        ELSE IF "rating" \notin DOMAIN data THEN 500
        ELSE IF ~(1 <= data.rating /\ data.rating <= 5) THEN 400
        ELSE 0

\* create_review up to its rating check (lines 19-52): the request is
\* answered with an error, or it has passed the duplicate check and goes on
\* to its insert
CreateReviewCheck ==
    \E req \in incoming :
        /\ Serving
        /\ served + Len(inflight) < MaxRequests
        /\ req.op = "create_review"
        /\ IF CreateReviewStatus(req) # 0
           THEN /\ Respond("create_review", req, CreateReviewStatus(req), NoBody)
                /\ UNCHANGED inflight
           ELSE /\ inflight' = Append(inflight,
                       [req |-> req,
                        agency_id |-> agencies[First(AgenciesOfTax(NormTax(req.data.agency_tax_id)))].agency_id])
                /\ UNCHANGED <<served, response>>
        /\ UNCHANGED <<calls, csv, agencies, pendings, review_rows, incoming>>

\* the row of lines 58-71
NewReview(f, id, now) ==
    [id |-> id, review_id |-> "R-" \o ToString(id), agency_id |-> f.agency_id,
     client_id |-> f.req.client,
     status |-> IF is_suspicious(f.req.data) THEN "rejected" ELSE "pending",
     rating |-> PyInt(f.req.data.rating), reply |-> None, reply_at |-> PyNone,
     created_at |-> PyDatetime(now), re_rating |-> PyNone]

\* the hour of the clock when the next request is answered
Now == 200 + served

\* create_review without the guardian: the review is stored as pending
CreateReviewInsertUnguarded ==
    \E k \in DOMAIN inflight :
        /\ pc = "serve"
        /\ LET f == inflight[k]
               data == f.req.data
           IN  IF {"customer_name", "customer_email", "comment"} \subseteq DOMAIN data
                  /\ f.agency_id # NoAgencyId
               THEN /\ review_rows' = Append(review_rows,
                           [NewReview(f, NextRowId(review_rows), Now) EXCEPT !.status = "pending"])
                    /\ Respond("create_review", f.req, 201, NoBody)
               ELSE /\ Respond("create_review", f.req, 500, NoBody)
                    /\ UNCHANGED review_rows
        /\ inflight' = [i \in 1..(Len(inflight) - 1) |->
                           IF i < k THEN inflight[i] ELSE inflight[i + 1]]
        /\ UNCHANGED <<calls, csv, agencies, pendings, incoming>>

\* create_review from line 55 on: the review is built, the guardian looks
\* at the payload and the row is inserted; a payload without customer_name,
\* customer_email or comment raises KeyError, an agency without agency_id
\* breaks nullable=False of Review.agency_id
CreateReviewInsert ==
    \E k \in DOMAIN inflight :
        /\ pc = "serve"
        /\ LET f == inflight[k]
               data == f.req.data
           IN  IF {"customer_name", "customer_email", "comment"} \subseteq DOMAIN data
                  /\ f.agency_id # NoAgencyId
               THEN /\ review_rows' = Append(review_rows,
                                             NewReview(f, NextRowId(review_rows), Now))
                    /\ Respond("create_review", f.req, 201, NoBody)
               ELSE /\ Respond("create_review", f.req, 500, NoBody)
                    /\ UNCHANGED review_rows
        /\ inflight' = [i \in 1..(Len(inflight) - 1) |->
                           IF i < k THEN inflight[i] ELSE inflight[i + 1]]
        /\ UNCHANGED <<calls, csv, agencies, pendings, incoming>>

\* the rows that a query filtered by review_id finds
RowsOfReview(review_id) == {i \in DOMAIN review_rows : review_rows[i].review_id = review_id}

\* approve_review
ApproveReview ==
    \E req \in incoming :
        /\ Serving
        /\ req.op = "approve_review"
        /\ LET found == RowsOfReview(req.review_id)
           IN  IF found = {}
               THEN /\ Respond("approve_review", req, 404, NoBody)
                    /\ UNCHANGED review_rows
               ELSE IF review_rows[First(found)].status # "pending"
               THEN /\ Respond("approve_review", req, 400, NoBody)
                    /\ UNCHANGED review_rows
               ELSE /\ review_rows' = [review_rows EXCEPT ![First(found)].status = "approved"]
                    /\ Respond("approve_review", req, 200, NoBody)
        /\ UNCHANGED <<calls, csv, agencies, pendings, inflight, incoming>>

\* reply_to_review: lines 418-419 set the reply and reply_at = db.func.now()
\* on the object; line 423 then takes the truth value of that SQL
\* expression, which SQLAlchemy refuses with a TypeError, so that the
\* request ends before the commit of line 426 and nothing is stored
ReplyToReview ==
    \E req \in incoming :
        /\ Serving
        /\ req.op = "reply_to_review"
        /\ IF "reply" \notin DOMAIN req.data
           THEN Respond("reply_to_review", req, 400, NoBody)
           ELSE IF req.agency_id = NoAgencyId
           THEN Respond("reply_to_review", req, 404, NoBody)
           ELSE IF {i \in RowsOfReview(req.review_id) :
                       review_rows[i].agency_id = req.agency_id} = {}
           THEN Respond("reply_to_review", req, 404, NoBody)
           ELSE Respond("reply_to_review", req, 500, NoBody)
        /\ UNCHANGED <<calls, csv, agencies, pendings, review_rows, inflight, incoming>>

\* re_review that does not look whether the agency has replied
ReReviewWithoutReply ==
    \E req \in incoming :
        /\ Serving
        /\ req.op = "re_review"
        /\ LET found == {i \in RowsOfReview(req.review_id) :
                            review_rows[i].client_id = req.client}
           IN  IF "stars" \notin DOMAIN req.data
               THEN /\ Respond("re_review", req, 400, NoBody)
                    /\ UNCHANGED review_rows
               ELSE IF found = {}
               THEN /\ Respond("re_review", req, 404, NoBody)
                    /\ UNCHANGED review_rows
               ELSE /\ review_rows' = [review_rows EXCEPT
                                          ![First(found)].re_rating = PyInt(req.data.stars)]
                    /\ Respond("re_review", req, 200, NoBody)
        /\ UNCHANGED <<calls, csv, agencies, pendings, inflight, incoming>>

\* re_review
ReReview ==
    \E req \in incoming :
        /\ Serving
        /\ req.op = "re_review"
        /\ LET found == {i \in RowsOfReview(req.review_id) :
                            review_rows[i].client_id = req.client}
           IN  IF "stars" \notin DOMAIN req.data
               THEN /\ Respond("re_review", req, 400, NoBody)
                    /\ UNCHANGED review_rows
               ELSE IF found = {}
               THEN /\ Respond("re_review", req, 404, NoBody)
                    /\ UNCHANGED review_rows
               ELSE IF ~Truthy(review_rows[First(found)].reply)
               THEN /\ Respond("re_review", req, 400, NoBody)
                    /\ UNCHANGED review_rows
               ELSE /\ review_rows' = [review_rows EXCEPT
                                          ![First(found)].re_rating = PyInt(req.data.stars)]
                    /\ Respond("re_review", req, 200, NoBody)
        /\ UNCHANGED <<calls, csv, agencies, pendings, inflight, incoming>>

\* patch_review that takes the stars without the check of line 246
PatchReviewUnchecked ==
    \E req \in incoming :
        /\ Serving
        /\ req.op = "patch_review"
        /\ LET found == {i \in RowsOfReview(req.review_id) :
                            review_rows[i].client_id = req.client}
           IN  IF req.client \notin Clients \/ found = {}
               THEN /\ Respond("patch_review", req, 404, NoBody)
                    /\ UNCHANGED review_rows
               ELSE IF \/ /\ Truthy(review_rows[First(found)].reply)
                          /\ review_rows[First(found)].re_rating # PyNone
                       \/ DOMAIN req.data = {}
               THEN /\ Respond("patch_review", req, 400, NoBody)
                    /\ UNCHANGED review_rows
               ELSE /\ review_rows' =
                           IF "stars" \in DOMAIN req.data
                           THEN [review_rows EXCEPT ![First(found)].rating = PyInt(req.data.stars)]
                           ELSE review_rows
                    /\ Respond("patch_review", req, 200, NoBody)
        /\ UNCHANGED <<calls, csv, agencies, pendings, inflight, incoming>>

\* patch_review; the comment of a review is not kept in the rows
PatchReview ==
    \E req \in incoming :
        /\ Serving
        /\ req.op = "patch_review"
        /\ LET found == {i \in RowsOfReview(req.review_id) :
                            review_rows[i].client_id = req.client}
           IN  IF req.client \notin Clients \/ found = {}
               THEN /\ Respond("patch_review", req, 404, NoBody)
                    /\ UNCHANGED review_rows
               ELSE IF \/ /\ Truthy(review_rows[First(found)].reply)
                          /\ review_rows[First(found)].re_rating # PyNone
                       \/ DOMAIN req.data = {}
               THEN /\ Respond("patch_review", req, 400, NoBody)
                    /\ UNCHANGED review_rows
               ELSE IF "stars" \in DOMAIN req.data
                       /\ ~(1 <= req.data.stars /\ req.data.stars <= 5)
               THEN /\ Respond("patch_review", req, 400, NoBody)
                    /\ UNCHANGED review_rows
               ELSE /\ review_rows' =
                           IF "stars" \in DOMAIN req.data
                           THEN [review_rows EXCEPT ![First(found)].rating = PyInt(req.data.stars)]
                           ELSE review_rows
                    /\ Respond("patch_review", req, 200, NoBody)
        /\ UNCHANGED <<calls, csv, agencies, pendings, inflight, incoming>>

\* the agency that get_agencies passes to the calculator: the columns of
\* the row that the calculator reads
AgencyArgument(row) ==
    [f \in {"phone", "email", "tax_id", "official_name"} |-> row[f]]

\* the reviews that get_agencies passes for an agency (line 50): its approved
\* reviews, with the attributes that the calculator reads
ReviewsArgument(agency_id, rows) ==
    LET mine == SelectSeq(rows, LAMBDA r : r.agency_id = agency_id /\ r.status = "approved")
    IN  [kind |-> "list",
         items |-> [i \in DOMAIN mine |->
                       [status |-> mine[i].status, rating |-> mine[i].rating,
                        reply |-> mine[i].reply, reply_at |-> mine[i].reply_at,
                        created_at |-> mine[i].created_at,
                        re_rating |-> mine[i].re_rating]]]

\* get_agencies (lines 45-53): the calculator is called for one approved
\* agency after the other, with the approved reviews of the agency
GetAgencies ==
    \E req \in incoming :
        /\ Serving
        /\ req.op = "get_agencies"
        /\ LET approved_agencies == SelectSeq(agencies, LAMBDA a : a.status = "approved")
               args == [i \in DOMAIN approved_agencies |->
                           [agency |-> AgencyArgument(approved_agencies[i]),
                            reviews |-> ReviewsArgument(approved_agencies[i].agency_id,
                                                        review_rows)]]
           IN  IF args = <<>>
               THEN /\ Respond("get_agencies", req, 200, NoBody)
                    /\ UNCHANGED <<agency, reviews, pc, todo>>
               ELSE /\ Respond("get_agencies", req, 200, NoBody)
                    /\ agency' = args[1].agency
                    /\ reviews' = args[1].reviews
                    /\ pc' = "idle"
                    /\ todo' = [i \in 1..(Len(args) - 1) |-> <<args[i + 1]>>]
        /\ UNCHANGED <<caller, score, reasons, details, approved, score_change,
                       review_reasons, result, suspended, history,
                       csv, agencies, pendings, review_rows, inflight, incoming>>


Next ==
    \/ CallCalculateTrustScore
    \/ PhoneValidation
    \/ EmailValidation
    \/ RneValidation
    \/ OfficialName
    \/ ReviewsAnalysis
    \/ CallCalculateFromReviews
    \/ FilterApproved
    \/ AverageRating
    \/ FastReplies
    \/ Resolutions
    \/ ReturnFromReviews
    \/ NormalizeScore
    \/ Switch
    \/ NextBatch
    \/ AddAgency
    \/ UpdateAgency
    \/ DeleteAgency
    \/ ApprovePendingAgency
    \/ CreateReviewCheck
    \/ CreateReviewInsert
    \/ ApproveReview
    \/ ReplyToReview
    \/ ReReview
    \/ PatchReview
    \/ GetAgencies

(***************************************************************************)
(* Inputs of the calls                                                     *)
(***************************************************************************)
\* how many single-character edits away from the base strings the inputs go
MaxEdits == 1

\* the longest review list
MaxReviews == 2

Inserts(s, chars) ==
    {SubSeq(s, 1, i) \o <<c>> \o SubSeq(s, i + 1, Len(s)) :
        i \in 0..Len(s), c \in chars}

Deletes(s) ==
    {SubSeq(s, 1, i - 1) \o SubSeq(s, i + 1, Len(s)) : i \in 1..Len(s)}

Substitutions(s, chars) ==
    {[s EXCEPT ![i] = c] : i \in 1..Len(s), c \in chars}

Edits(S, chars) ==
    S \cup UNION {Inserts(s, chars) \cup Deletes(s) \cup Substitutions(s, chars) :
                    s \in S}

RECURSIVE EditsUpTo(_, _, _)
EditsUpTo(n, S, chars) ==
    IF n = 0 THEN S ELSE EditsUpTo(n - 1, Edits(S, chars), chars)

\* a field the agency record does not have
Missing == <<"Missing">>

Fields == {"phone", "email", "tax_id", "official_name"}

MkAgency(phone, email, tax_id, official_name) ==
    LET all == [f \in Fields |->
                  CASE f = "phone" -> phone
                    [] f = "email" -> email
                    [] f = "tax_id" -> tax_id
                    [] f = "official_name" -> official_name]
    IN  [f \in {g \in Fields : all[g] # Missing} |-> all[f]]

\* +21627123456, contact@agency.tn, 12345678A, Agency SARL
PhoneA == <<"+","2","1","6","2","7","1","2","3","4","5","6">>

EmailA == <<"c","o","n","t","a","c","t","@","a","g","e","n","c","y",".","t","n">>

TaxIdA == <<"1","2","3","4","5","6","7","8","A">>

NameA == <<"A","g","e","n","c","y"," ","S","A","R","L">>

ScenarioA == MkAgency(PhoneA, EmailA, TaxIdA, NameA)

\* +21608123456, fake-test123@mail.com, bad, ''
PhoneB == <<"+","2","1","6","0","8","1","2","3","4","5","6">>

EmailB == <<"f","a","k","e","-","t","e","s","t","1","2","3","@",
            "m","a","i","l",".","c","o","m">>

TaxIdB == <<"b","a","d">>

ScenarioB == MkAgency(PhoneB, EmailB, TaxIdB, <<>>)

NotAString == {Missing, None, <<>>}

PhoneEditChars == {"+", "0", "2", "6", "a", " ", "-", "\n"}

\* the phones at most n edits away from those of Scenario A and Scenario B
PhoneInputs(n) ==
    NotAString \cup {<<" ">>, <<"-">>, <<"\n">>}
      \cup EditsUpTo(n, {PhoneA, PhoneB}, PhoneEditChars)

\* ab@cd.tn and free@cd.tn
EmailShort == <<"a","b","@","c","d",".","t","n">>

EmailFree == <<"f","r","e","e","@","c","d",".","t","n">>

EmailEditChars == {"a", "E", "7", ".", "-", "_", "@", " ", "!", "\n"}

\* every blocklisted word alone and inside a well-formed address
EmailWordInputs ==
    UNION {{SuspiciousWords[k].chars,
            <<"x", "@">> \o SuspiciousWords[k].chars \o <<".", "t", "n">>,
            StrUpper(SuspiciousWords[k].chars) \o <<"@", "x", ".", "t", "n">>} :
              k \in DOMAIN SuspiciousWords}

EmailInputs(n) ==
    NotAString \cup {EmailA, EmailB} \cup EmailWordInputs
      \cup EditsUpTo(n, {EmailShort, EmailFree}, EmailEditChars)

TaxIdEditChars == {"0", "9", "a", "Z", " ", "-", "\n"}

TaxIdInputs(n) ==
    NotAString \cup {TaxIdB, <<" ">>}
      \cup EditsUpTo(n, {TaxIdA}, TaxIdEditChars)

NameEditChars == {"A", " ", "\n", "\t"}

NameInputs(n) ==
    NotAString \cup {NameA}
      \cup EditsUpTo(n, {<<" ">>, <<"A", " ">>}, NameEditChars)

\* a Review row
Review(status, rating, reply, reply_at, created_at, re_rating) ==
    [status |-> status, rating |-> rating, reply |-> reply,
     reply_at |-> reply_at, created_at |-> created_at, re_rating |-> re_rating]

ReplyText == <<"o", "k">>

\* an approved review with this rating, no reply and no re-rating
Rated(status, n) == Review(status, PyInt(n), None, PyNone, PyDatetime(100), PyNone)

\* an approved review rated 3, replied to `hours` after its creation
Replied(status, reply, hours) ==
    Review(status, PyInt(3), reply, PyDatetime(100 + hours), PyDatetime(100), PyNone)

\* an approved review rated 2, replied to after two days, then re-rated
ReRated(status, re_rating) ==
    Review(status, PyInt(2), ReplyText, PyDatetime(148), PyDatetime(100), re_rating)

\* the object r without its attribute a
Without(r, a) == [x \in DOMAIN r \ {a} |-> r[x]]

ReviewInputs ==
    {Rated("approved", n) : n \in 0..6}
      \cup {Rated("pending", 5), Rated("rejected", 1),
            Without(Rated("approved", 5), "rating"),
            Without(Rated("approved", 4), "status"),
            Review("approved", PyNone, None, PyNone, PyDatetime(100), PyNone),
            Review("approved", PyNonNumeric, None, PyNone, PyDatetime(100), PyNone)}
      \cup {Replied("approved", ReplyText, h) : h \in {-1, 23, 24, 25}}
      \cup {Replied("approved", <<>>, 1), Replied("pending", ReplyText, 1),
            Review("approved", PyInt(3), ReplyText, PyNone, PyDatetime(100), PyNone),
            Review("approved", PyInt(3), ReplyText, PyDatetime(101), PyNone, PyNone),
            Without(Replied("approved", ReplyText, 1), "created_at")}
      \cup {ReRated("approved", PyInt(n)) : n \in {0, 3, 4, 5}}
      \cup {ReRated("pending", PyInt(5)), ReRated("approved", PyNonNumeric)}

\* the lists of at most n reviews drawn from S
ListsUpTo(S, n) == UNION {[1..k -> S] : k \in 0..n}

\* the review lists of the specification of the whole calculator
ReviewSamples ==
    {Review("approved", PyInt(5), ReplyText, PyDatetime(101), PyDatetime(100), PyInt(5)),
     Rated("approved", 1), Rated("pending", 5),
     Review("approved", PyNone, None, PyNone, PyDatetime(100), PyNone),
     ReRated("approved", PyNonNumeric)}

\* the calculator is called on its own: nothing is stored and no request
\* is served
NoServer ==
    /\ csv = <<>>
    /\ agencies = <<>>
    /\ pendings = {}
    /\ review_rows = <<>>
    /\ inflight = <<>>
    /\ served = 0
    /\ response = NoResponse
    /\ incoming = {}

\* the arguments of a call
Args(a, revs) == [agency |-> a, reviews |-> revs]

\* the first batch is the calls given by `first`, `rest` are the batches after it
StartBatches(first, rest) ==
    /\ agency = first[1].agency
    /\ reviews = first[1].reviews
    /\ pc = "idle"
    /\ caller = "none"
    /\ score = 0
    /\ reasons = <<>>
    /\ details = <<>>
    /\ approved = <<>>
    /\ score_change = 0
    /\ review_reasons = <<>>
    /\ result = NoResult
    /\ suspended = [i \in 1..(Len(first) - 1) |->
                       NewCall(first[i + 1].agency, first[i + 1].reviews)]
    /\ todo = rest
    /\ history = <<>>
    /\ NoServer

\* one call
Start(a, revs) == StartBatches(<<Args(a, revs)>>, <<>>)

\* a review list that takes the call through every step of calculate_from_reviews
OneReviewList == ReviewList(<<Rated("approved", 4)>>)

\* two requests served at the same time, and one more call after them
StartTwoRequests ==
    StartBatches(<<Args(ScenarioA, OneReviewList), Args(ScenarioB, NoReviewList)>>,
                 <<<<Args(ScenarioA, OneReviewList)>>>>)

(***************************************************************************)
(* Inputs of the requests                                                  *)
(***************************************************************************)
TaxIdGood == <<"0","1","6","1","6","3","4","3","A">>

TaxIdGoodUnpadded == <<"1","6","1","6","3","4","3","A">>

TaxIdGoodSpaced == <<" ","0","1","6","1","6","3","4","3","A","\n">>

TaxIdDigits == <<"1","2","3","4","5","6","7","8">>

TaxIdShort == <<"0","0","2","4","1","2","B">>

NameGood == <<"A","B","C"," ","T","r","a","v","e","l"," ","S","A","R","L">>

NameBad == <<"B","a","d">>

NameNew == <<"N","e","w">>

GovTunis == <<"T","u","n","i","s">>

GovUnknown == <<"U","n","k","n","o","w","n">>

EmailGood == <<"i","n","f","o","@","a","b","c",".","t","n">>

EmailPlain == <<"b","a","d","@","b","a","d",".","c","o","m">>

EmailFreeWord == <<"f","r","e","e","@","b","a","d",".","c","o","m">>

EmailUpperTld == <<"b","a","d","@","b","a","d",".","C","O","M">>

PhoneGood == <<"+","2","1","6"," ","7","1"," ","2","3","4"," ","5","6","7">>

PhonePlain == <<"+","2","1","6","2","0","1","2","3","4","5","6">>

PhoneBlocked == <<"+","2","1","6","1","2","3","4","5","6","7","8">>

TaxIdOther == <<"8","7","6","5","4","3","2","1","B">>

TaxIdAHyphen == <<"1","2","3","4","-","5","6","7","8","a"," ">>

TaxIdUnknown == <<"9","9","9","9","9","9","9","9","Z">>

CommentSpam == <<"a","m","a","z","i","n","g"," ","p","e","r","f","e","c","t"," ","b","e","s","t"," ","e","v","e","r"," ","t","r","i","p">>

CommentShort == <<"o","k">>

CommentFine == <<"a"," ","f","i","n","e"," ","t","r","i","p"," ","w","i","t","h"," ","a"," ","g","o","o","d"," ","g","u","i","d","e">>

EmailGmail == <<"a","@","g","m","a","i","l",".","c","o","m">>

EmailCorp == <<"a","@","c","o","r","p",".","i","o">>

CustomerName == <<"A","l","i">>

\* the payload of add_agency; a field given as Missing is not in the payload
AgencyData(tax_id, company_name, governorate, email, phone) ==
    LET all == [f \in {"tax_id", "company_name", "governorate", "email", "phone"} |->
                  CASE f = "tax_id" -> tax_id
                    [] f = "company_name" -> company_name
                    [] f = "governorate" -> governorate
                    [] f = "email" -> email
                    [] f = "phone" -> phone]
    IN  [f \in {g \in DOMAIN all : all[g] # Missing} |-> all[f]]

AddRequest(data) == [op |-> "add_agency", data |-> data]

UpdateRequest(tax_id, data) == [op |-> "update_agency", tax_id |-> tax_id, data |-> data]

DeleteRequest(tax_id) == [op |-> "delete_agency", tax_id |-> tax_id]

ApproveRequest(pending_id) == [op |-> "approve_pending_agency", pending_id |-> pending_id]

CreateRequest(client, data) == [op |-> "create_review", client |-> client, data |-> data]

ApproveReviewRequest(review_id) == [op |-> "approve_review", review_id |-> review_id]

\* agency_id is the agency of the user who replies
ReplyRequest(review_id, agency_id, data) ==
    [op |-> "reply_to_review", review_id |-> review_id, agency_id |-> agency_id,
     data |-> data]

ReReviewRequest(review_id, client, data) ==
    [op |-> "re_review", review_id |-> review_id, client |-> client, data |-> data]

PatchRequest(review_id, client, data) ==
    [op |-> "patch_review", review_id |-> review_id, client |-> client, data |-> data]

GetAgenciesRequest == [op |-> "get_agencies"]

\* an agency that scores 25 + 10 + 20 + 15 + 10 = 80
GoodData == AgencyData(TaxIdGood, NameGood, GovTunis, EmailGood, PhoneGood)

\* an agency that passes validate_agency_data and scores 25 + 10 = 35
LowData == AgencyData(TaxIdDigits, NameBad, GovTunis, EmailPlain, PhonePlain)

\* the low-trust agency of the tests: governorate and phone are not valid
TestLowData == AgencyData(TaxIdDigits, NameBad, GovUnknown, EmailPlain, PhoneBlocked)

AddRequests ==
    { AddRequest(GoodData),
      AddRequest(AgencyData(TaxIdGoodUnpadded, NameGood, GovTunis, EmailGood, PhoneGood)),
      AddRequest(AgencyData(TaxIdGoodSpaced, NameBad, GovTunis, EmailPlain, PhonePlain)),
      AddRequest(LowData),
      AddRequest(AgencyData(TaxIdDigits, NameBad, GovTunis, EmailFreeWord, PhonePlain)),
      AddRequest(AgencyData(TaxIdShort, NameGood, GovTunis, EmailUpperTld, PhoneGood)),
      AddRequest(TestLowData),
      AddRequest(AgencyData(Missing, NameGood, GovTunis, EmailGood, PhoneGood)),
      AddRequest(AgencyData(TaxIdOther, Missing, GovTunis, EmailGood, PhoneGood)) }

UpdateRequests ==
    { UpdateRequest(TaxIdGood, [email |-> EmailFreeWord]),
      UpdateRequest(TaxIdGood, [tax_id |-> TaxIdDigits, company_name |-> NameNew]),
      UpdateRequest(TaxIdDigits, [phone |-> PhoneBlocked]),
      UpdateRequest(TaxIdUnknown, [email |-> EmailGood]) }

DeleteRequests == { DeleteRequest(TaxIdGood), DeleteRequest(TaxIdDigits) }

\* the server waits for requests
StartServer(file, agency_rows, pending, rows, flying, count, requests) ==
    /\ agency = <<>>
    /\ reviews = NoReviewList
    /\ pc = "serve"
    /\ caller = "none"
    /\ score = 0
    /\ reasons = <<>>
    /\ details = <<>>
    /\ approved = <<>>
    /\ score_change = 0
    /\ review_reasons = <<>>
    /\ result = NoResult
    /\ suspended = <<>>
    /\ todo = <<>>
    /\ history = <<>>
    /\ csv = file
    /\ agencies = agency_rows
    /\ pendings = pending
    /\ review_rows = rows
    /\ inflight = flying
    /\ served = count
    /\ response = NoResponse
    /\ incoming = requests

\* a row of the table agencies
AgencyRow(id, agency_id, tax_id, official_name, email, phone, status) ==
    [id |-> id, agency_id |-> agency_id, tax_id |-> tax_id,
     company_name |-> NameGood, official_name |-> official_name,
     email |-> email, phone |-> phone, status |-> status]

\* the two approved agencies that the reviews are about: Scenario A and
\* Scenario B
AgencyRowA == AgencyRow(1, "A-001", TaxIdA, NameA, EmailA, PhoneA, "approved")

AgencyRowB == AgencyRow(2, "A-002", TaxIdOther, None, EmailB, PhoneB, "approved")

\* an agency imported from the CSV file by db_seed: no agency_id
AgencyRowSeeded == AgencyRow(1, NoAgencyId, TaxIdGood, None, EmailGood, PhoneGood, "active")

\* a pending registration
Pending(pending_id, tax_id, email) ==
    [pending_id |-> pending_id, status |-> "pending", agency_tax_id |-> tax_id,
     company_name |-> NameGood, official_name |-> NameA, email |-> email,
     phone |-> PhoneA]

PendingOne == Pending("P-1", TaxIdA, EmailA)

PendingTwo == Pending("P-2", TaxIdOther, EmailGood)

ApprovalRequests ==
    { ApproveRequest("P-1"), ApproveRequest("P-2"), ApproveRequest("P-9"),
      GetAgenciesRequest }

\* a row of the table reviews
ReviewRow(id, agency_id, client, status, rating, reply, reply_at, re_rating) ==
    [id |-> id, review_id |-> "R-" \o ToString(id), agency_id |-> agency_id,
     client_id |-> client, status |-> status, rating |-> PyInt(rating),
     reply |-> reply, reply_at |-> reply_at, created_at |-> PyDatetime(100),
     re_rating |-> re_rating]

\* reviews that were in the table before the server started: an approved
\* one that the agency has replied to after two hours, and a pending one
SeededRows ==
    << ReviewRow(1, "A-001", 1, "approved", 2, ReplyText, PyDatetime(102), PyNone),
       ReviewRow(2, "A-002", 2, "pending", 4, None, PyNone, PyNone) >>

\* the payload of create_review
ReviewData(tax_id, rating, comment, customer_email) ==
    [agency_tax_id |-> tax_id, rating |-> rating, comment |-> comment,
     customer_name |-> CustomerName, customer_email |-> customer_email]

\* the requests of one client about one agency and about its review R-1
ReviewRequests ==
    { CreateRequest(1, ReviewData(TaxIdA, 5, CommentSpam, EmailGmail)),
      CreateRequest(1, ReviewData(TaxIdAHyphen, 4, CommentFine, EmailCorp)),
      CreateRequest(1, ReviewData(TaxIdA, 6, CommentFine, EmailCorp)),
      CreateRequest(1, ReviewData(TaxIdUnknown, 0, CommentShort, EmailCorp)),
      ApproveReviewRequest("R-1"),
      ReplyRequest("R-1", "A-001", [reply |-> <<>>]),
      ReReviewRequest("R-1", 1, [stars |-> 5]),
      PatchRequest("R-1", 1, [stars |-> 9]),
      PatchRequest("R-1", 1, [stars |-> 1, comment |-> CommentFine]),
      GetAgenciesRequest }

\* the requests of reviews that were in the table before the server started
SeededReviewRequests ==
    { CreateRequest(1, ReviewData(TaxIdA, 0, CommentFine, EmailCorp)),
      CreateRequest(2, ReviewData(TaxIdA, 5, CommentShort, EmailGmail)),
      ApproveReviewRequest("R-2"),
      ReplyRequest("R-1", "A-001", [reply |-> <<>>]),
      ReplyRequest("R-2", "A-002", [reply |-> ReplyText]),
      ReReviewRequest("R-1", 1, [stars |-> 5]),
      ReReviewRequest("R-2", 2, [stars |-> 4]),
      PatchRequest("R-1", 1, [stars |-> 9]),
      PatchRequest("R-2", 2, [stars |-> 3]),
      GetAgenciesRequest }

\* one more request to a server that has agencies, a pending registration
\* and reviews, and that has a create_review request between its duplicate
\* check and its insert
StartEveryRoute ==
    StartServer(<<CsvRow(NewAgency(GoodData))>>, <<AgencyRowA>>, {PendingTwo},
                SeededRows,
                <<>>,
                MaxRequests - 1,
                { AddRequest(LowData), UpdateRequest(TaxIdGood, [email |-> EmailFreeWord]),
                  DeleteRequest(TaxIdGood), ApproveRequest("P-2"),
                  CreateRequest(2, ReviewData(TaxIdA, 4, CommentFine, EmailCorp)),
                  ApproveReviewRequest("R-2"),
                  ReplyRequest("R-1", "A-001", [reply |-> ReplyText]),
                  ReReviewRequest("R-1", 1, [stars |-> 5]),
                  PatchRequest("R-1", 1, [stars |-> 3]),
                  GetAgenciesRequest })


\* the calculator on a sample of agencies and review lists
Init ==
    \/ \E p \in {Missing, None, PhoneA, PhoneB},
       e \in {None, <<>>, EmailA, EmailB},
       t \in {Missing, TaxIdA, TaxIdB},
       n \in {None, <<>>, NameA},
       revs \in {NoReviewList} \cup {ReviewList(l) : l \in ListsUpTo(ReviewSamples, MaxReviews)} :
      Start(MkAgency(p, e, t, n), revs)
    \/ StartTwoRequests
    \/ StartEveryRoute

Spec == Init /\ [][Next]_vars

\* one field varies over its inputs, the rest is Scenario A
InitPhone ==
    \/ \E p \in PhoneInputs(MaxEdits) : Start(MkAgency(p, EmailA, TaxIdA, NameA), NoReviewList)
    \/ StartTwoRequests
    \/ StartEveryRoute

SpecPhone == InitPhone /\ [][Next]_vars

InitEmail ==
    \/ \E e \in EmailInputs(MaxEdits) : Start(MkAgency(PhoneA, e, TaxIdA, NameA), NoReviewList)
    \/ StartTwoRequests
    \/ StartEveryRoute

SpecEmail == InitEmail /\ [][Next]_vars

InitRne ==
    \/ \E t \in TaxIdInputs(MaxEdits) : Start(MkAgency(PhoneA, EmailA, t, NameA), NoReviewList)
    \/ StartTwoRequests
    \/ StartEveryRoute

SpecRne == InitRne /\ [][Next]_vars

InitName ==
    \/ \E n \in NameInputs(MaxEdits), revs \in {NoReviewList, OneReviewList} :
         Start(MkAgency(PhoneB, EmailB, TaxIdA, n), revs)
    \/ StartTwoRequests
    \/ StartEveryRoute

SpecName == InitName /\ [][Next]_vars

\* an agency whose fields give 50 + 15 - 25 - 25 + 0 = 15, so that no review
\* list brings the sum out of 0..100
ScenarioMid == MkAgency(PhoneA, EmailB, TaxIdB, <<>>)

\* Scenario C: three approved reviews rated 5, 4 and 5, one of them replied
\* to after an hour, none re-rated
ScenarioCReviews ==
    ReviewList(<<Rated("approved", 5),
                 Review("approved", PyInt(4), ReplyText, PyDatetime(101), PyDatetime(100), PyNone),
                 Rated("approved", 5)>>)

\* the review list varies
InitReviews ==
    \/ \E revs \in {NoReviewList} \cup {ReviewList(l) : l \in ListsUpTo(ReviewInputs, MaxReviews)} :
         Start(ScenarioMid, revs)
    \/ Start(ScenarioA, ScenarioCReviews)
    \/ StartTwoRequests
    \/ StartEveryRoute

SpecReviews == InitReviews /\ [][Next]_vars

\* the agencies of the CSV file: requests in every order on a file that has
\* no agency or one
InitAgencyStore ==
    \/ \E file \in {<<>>, <<CsvRow(NewAgency(GoodData))>>} :
         StartServer(file, <<>>, {}, <<>>, <<>>, 0,
                     AddRequests \cup UpdateRequests \cup DeleteRequests)
    \/ StartTwoRequests
    \/ StartEveryRoute

SpecAgencyStore == InitAgencyStore /\ [][Next]_vars

\* approvals of pending registrations, on a table agencies that is empty,
\* that was filled by db_seed, or whose agency got its agency_id from
\* assign_agency_ids
InitApprovals ==
    \/ \E rows \in {<<>>, <<AgencyRowSeeded>>,
                   <<AgencyRow(1, "A-001", TaxIdGood, None, EmailGood, PhoneGood, "approved")>>} :
         StartServer(<<>>, rows, {PendingOne, PendingTwo}, <<>>, <<>>, 0, ApprovalRequests)
    \/ StartTwoRequests
    \/ StartEveryRoute

SpecApprovals == InitApprovals /\ [][Next]_vars

\* the routes of the reviews, on an empty table and on one that has reviews
InitReviewRoutes ==
    \/ StartServer(<<>>, <<AgencyRowA, AgencyRowB>>, {}, <<>>, <<>>, 0, ReviewRequests)
    \/ StartServer(<<>>, <<AgencyRowA, AgencyRowB>>, {}, SeededRows, <<>>, 0,
                   SeededReviewRequests)
    \/ StartTwoRequests
    \/ StartEveryRoute

SpecReviewRoutes == InitReviewRoutes /\ [][Next]_vars

(***************************************************************************)
(* Claims                                                                  *)
(***************************************************************************)
\* a call of calculate_trust_score has returned
CallReturned == pc = "done" /\ caller = "calculate_trust_score"

\* the value of the field as the validators receive it
FieldOf(f) == GetField(agency, f)

\* C1: whatever the agency record and the review list, the score that
\* calculate_trust_score returns is an integer between 0 and 100.
C1_ScoreInRange ==
    CallReturned => result.kind = "return" /\ result.value.score \in 0..100

\* C1: a call with reviews has returned and its deltas summed to less than 0
C1_Witness ==
    /\ CallReturned
    /\ ReviewsTruthy(reviews)
    /\ score < 0
    /\ result.value.score = 0

\* the average-rating sub-score of a non-empty list of ratings, by its mean
BucketOf(ratings) ==
    LET total == SumRatings(ratings)
        count == Len(ratings)
    IN  IF total >= 4 * count THEN 20
        ELSE IF total >= 3 * count THEN 10
        ELSE -15

\* the review delta as the plain sum of the three sub-scores of the
\* approved reviews
ReviewDeltaOf(revs) ==
    LET appr == IF revs.kind = "list" THEN ApprovedReviews(revs.items) ELSE <<>>
        rated == RatedReviews(appr)
    IN  IF appr = <<>> THEN 0
        ELSE (IF rated = <<>> THEN 0
              ELSE BucketOf([i \in 1..Len(rated) |-> rated[i].rating.v]))
             + (IF \E i \in 1..Len(appr) : IsFastReply(appr[i]) THEN 10 ELSE 0)
             + (IF \E i \in 1..Len(appr) : IsResolution(appr[i]) THEN 15 ELSE 0)

DeltaSum ==
    50 + validate_phone(FieldOf("phone"))[3]
       + validate_email(FieldOf("email"))[3]
       + validate_rne(FieldOf("tax_id"))[3]
       + validate_official_name(FieldOf("official_name"))[3]
       + ReviewDeltaOf(reviews)

\* C2: the returned score is min(100, max(0, 50 + phone delta + email delta
\* + tax-ID delta + official-name delta + review delta)), each delta a
\* function of its own field alone and the review delta the sum of its three
\* sub-scores; Scenario A without reviews gives 100 and Scenario B gives 0.
C2_ScoreIsClampedSum ==
    CallReturned =>
      /\ result.value.score =
           (IF DeltaSum < 0 THEN 0 ELSE IF DeltaSum > 100 THEN 100 ELSE DeltaSum)
      /\ (agency = ScenarioA /\ ~ReviewsTruthy(reviews)) => result.value.score = 100
      /\ (agency = ScenarioB /\ ~ReviewsTruthy(reviews)) => result.value.score = 0

\* C2: Scenario B has been scored: 50 - 30 - 25 - 25 + 0 + 0 = -30, returned as 0
C2_Witness ==
    /\ CallReturned
    /\ agency = ScenarioB
    /\ reviews = ReviewList(<<>>)
    /\ score = -30
    /\ result.value.score = 0

\* C3: calculate_trust_score is total: whatever the agency record and the
\* reviews (a missing or non-numeric rating, missing timestamps, a re-rating
\* that is no integer), the call completes: no call ends in an exception.
C3_NeverRaises == pc # "raised"

\* the step of calculate_trust_score that handles the field has just been
\* taken: its entry is the last one written to details
Checked(key) ==
    /\ key \in DOMAIN details
    /\ pc = (CASE key = "phone" -> "email"
               [] key = "email" -> "rne"
               [] key = "rne" -> "official_name"
               [] key = "official_name" -> "reviews")

\* the email contains a blocklisted word, in any letter case
HasSuspiciousWord(e) ==
    \E k \in DOMAIN SuspiciousWords :
       \E i \in 1..Len(e) :
          /\ i + Len(SuspiciousWords[k].chars) - 1 <= Len(e)
          /\ \A m \in 1..Len(SuspiciousWords[k].chars) :
                LowerChar(e[i + m - 1]) = SuspiciousWords[k].chars[m]

\* C4 as claimed: every email that contains a blocklisted word gets delta
\* -25, whether or not it has the shape local@domain.tld.
C4_BlocklistDominates ==
    Checked("email") =>
      LET e == FieldOf("email")
      IN  (Truthy(e) /\ HasSuspiciousWord(e)) => details.email.score = -25

\* C4 as amended: an email that contains a blocklisted word gets delta -25
\* when it matches the address pattern (the blocklist overrides the +15) and
\* -20 when it does not (the format check comes first); it is never valid.
C4_BlocklistAfterFormat ==
    Checked("email") =>
      LET e == FieldOf("email")
      IN  (Truthy(e) /\ HasSuspiciousWord(e)) =>
            /\ ~details.email.valid
            /\ details.email.score = (IF EmailPatternMatches(e) THEN -25 ELSE -20)

\* C4: a well-formed address with a blocklisted word in upper case got -25
C4_Witness ==
    /\ Checked("email")
    /\ Truthy(FieldOf("email"))
    /\ HasSuspiciousWord(FieldOf("email"))
    /\ FieldOf("email") # StrLower(FieldOf("email"))
    /\ EmailPatternMatches(FieldOf("email"))
    /\ details.email.score = -25

\* 8 digits followed by one letter of `letters`
TaxIdShape(t, letters) ==
    /\ Len(t) = 9
    /\ \A i \in 1..8 : t[i] \in DigitChars
    /\ t[9] \in letters

\* q is `core` between two runs of whitespace, for a core from i to j
Framed(q, i, j) ==
    /\ \A k \in 1..(i - 1) : q[k] \in Whitespace
    /\ \A k \in (j + 1)..Len(q) : q[k] \in Whitespace

\* C5 as claimed: +20 for every tax ID that matches ^[0-9]{8}[A-Z]$, -25 for
\* every other non-empty string and for an empty or missing tax ID.
C5_RawPattern ==
    Checked("rne") =>
      LET t == FieldOf("tax_id")
      IN  details.rne.score =
            (IF Truthy(t) /\ TaxIdShape(t, UpperChars) THEN 20 ELSE -25)

\* C5 as amended: +20 for every tax ID that, with its spaces removed and the
\* whitespace at its ends trimmed, is 8 digits followed by one letter of
\* either case; -25 for every other string and for an empty or missing one.
C5_NormalizedPattern ==
    Checked("rne") =>
      LET t == FieldOf("tax_id")
          q == IF Truthy(t) THEN SelectSeq(t, LAMBDA c : c # " ") ELSE <<>>
          ok == \E i \in 1..Len(q) : \E j \in i..Len(q) :
                   /\ Framed(q, i, j)
                   /\ TaxIdShape(SubSeq(q, i, j), UpperChars \cup LowerChars)
      IN  /\ details.rne.score = (IF ok THEN 20 ELSE -25)
          /\ details.rne.valid = ok

\* C5: a tax ID that does not match the pattern as written got +20
C5_Witness ==
    /\ Checked("rne")
    /\ Truthy(FieldOf("tax_id"))
    /\ ~TaxIdShape(FieldOf("tax_id"), UpperChars)
    /\ details.rne.score = 20

\* +216 followed by exactly 8 digits, the first of them in `first`
PhoneShape(q, first) ==
    /\ Len(q) = 12
    /\ q[1] = "+" /\ q[2] = "2" /\ q[3] = "1" /\ q[4] = "6"
    /\ \A i \in 5..12 : q[i] \in DigitChars
    /\ q[5] \in first

WithoutSpacesAndHyphens(p) == SelectSeq(p, LAMBDA c : c # " " /\ c # "-")

BlockedDigits == {"0", "1", "6", "8"}

\* C6 as claimed: delta -30 exactly when the phone, after removing spaces
\* and hyphens, is +216 followed by 8 digits the first of which is in
\* {0,1,6,8}; every other rejected phone gets -20.
C6_BlockedOnlyWhenWellFormed ==
    Checked("phone") =>
      LET p == FieldOf("phone")
          blocked == Truthy(p) /\ PhoneShape(WithoutSpacesAndHyphens(p), BlockedDigits)
      IN  /\ details.phone.score = -30 <=> blocked
          /\ (~details.phone.valid /\ ~blocked) => details.phone.score = -20

\* C6 as amended: delta -30 exactly when the phone, after removing spaces
\* and hyphens and trimming the whitespace at its ends, is +216 followed by 8
\* digits the first of which is in {0,1,6,8}; every other rejected phone gets
\* -20.
C6_BlockedOnlyWhenTrimmedWellFormed ==
    Checked("phone") =>
      LET p == FieldOf("phone")
          q == IF Truthy(p) THEN WithoutSpacesAndHyphens(p) ELSE <<>>
          blocked == \E i \in 1..Len(q) : \E j \in i..Len(q) :
                        /\ Framed(q, i, j)
                        /\ PhoneShape(SubSeq(q, i, j), BlockedDigits)
      IN  /\ details.phone.score = -30 <=> blocked
          /\ (~details.phone.valid /\ ~blocked) => details.phone.score = -20

\* C6: a phone with whitespace around a well-formed blocked number got -30
C6_Witness ==
    /\ Checked("phone")
    /\ Truthy(FieldOf("phone"))
    /\ ~PhoneShape(WithoutSpacesAndHyphens(FieldOf("phone")), BlockedDigits)
    /\ details.phone.score = -30

\* p with one space or hyphen inserted, or with one of them removed
SpaceHyphenVariants(p) ==
    Inserts(p, {" ", "-"})
      \cup {SubSeq(p, 1, i - 1) \o SubSeq(p, i + 1, Len(p)) :
              i \in {k \in 1..Len(p) : p[k] \in {" ", "-"}}}

\* C7: a phone that, after removing spaces and hyphens, is +216 followed by
\* 8 digits the first of which is in {2,3,4,5,7,9} is valid with delta +15;
\* inserting or removing a space or a hyphen never changes the delta.
C7_ValidPhone ==
    Checked("phone") =>
      LET p == FieldOf("phone")
      IN  /\ (Truthy(p) /\ PhoneShape(WithoutSpacesAndHyphens(p),
                                      {"2", "3", "4", "5", "7", "9"}))
               => (details.phone.valid /\ details.phone.score = 15)
          /\ p # None =>
               \A v \in SpaceHyphenVariants(p) :
                   validate_phone(v)[3] = details.phone.score

\* C7: a valid number written with a space or a hyphen got +15
C7_Witness ==
    /\ Checked("phone")
    /\ Truthy(FieldOf("phone"))
    /\ FieldOf("phone") # WithoutSpacesAndHyphens(FieldOf("phone"))
    /\ PhoneShape(WithoutSpacesAndHyphens(FieldOf("phone")), {"2", "3", "4", "5", "7", "9"})
    /\ details.phone.score = 15

\* local@domain.tld: a local part over letters, digits and . _ % + -, a
\* domain over letters, digits, . and - with a last dot in it, and after that
\* dot a TLD of at least 2 letters
EmailShape(e) ==
    \E i \in 1..Len(e) : \E j \in (i + 1)..Len(e) :
        /\ e[i] = "@" /\ e[j] = "."
        /\ i >= 2
        /\ \A k \in 1..(i - 1) :
              e[k] \in LowerChars \cup UpperChars \cup DigitChars
                         \cup {".", "_", "%", "+", "-"}
        /\ j >= i + 2
        /\ \A k \in (i + 1)..(j - 1) :
              e[k] \in LowerChars \cup UpperChars \cup DigitChars \cup {".", "-"}
        /\ Len(e) >= j + 2
        /\ \A k \in (j + 1)..Len(e) : e[k] \in LowerChars \cup UpperChars

\* C8: delta -20 for a missing or empty email and for every email that does
\* not have the shape local@domain.tld; +15 for every email that has the
\* shape and contains no blocklisted word.
C8_ShapeDecides ==
    Checked("email") =>
      LET e == FieldOf("email")
      IN  /\ (~Truthy(e) \/ ~EmailShape(e)) => details.email.score = -20
          /\ (Truthy(e) /\ EmailShape(e) /\ ~HasSuspiciousWord(e))
               => details.email.score = 15

\* the name has a character that is no whitespace
NonBlank(n) == n # None /\ \E i \in 1..Len(n) : n[i] \notin Whitespace

\* C9: the official-name delta is +10 when the name is non-empty after
\* trimming whitespace and 0 otherwise (missing, empty, whitespace only); it
\* is never negative, and it is what the step adds to the score.
C9_OfficialNameDelta ==
    Checked("official_name") =>
      LET expected == IF NonBlank(FieldOf("official_name")) THEN 10 ELSE 0
      IN  /\ details.official_name.score = expected
          /\ details.official_name.score >= 0
          /\ pc = "reviews" =>
               score = 50 + details.phone.score + details.email.score
                          + details.rne.score + expected

\* C9: a name of whitespace only was checked and added nothing
C9_Witness ==
    /\ pc = "reviews"
    /\ Truthy(FieldOf("official_name"))
    /\ ~NonBlank(FieldOf("official_name"))
    /\ details.official_name.score = 0
    /\ score = 50 + details.phone.score + details.email.score + details.rne.score

\* the ratings of the approved reviews, once the average has been taken
ApprovedRatings ==
    LET rated == RatedReviews(approved)
    IN  [i \in 1..Len(rated) |-> rated[i].rating.v]

\* C10: with A the mean of the ratings of the approved reviews, the
\* average-rating sub-score is +20 when A >= 4.0, +10 when 3.0 <= A < 4.0
\* and -15 when A < 3.0; A = 4.0 gives +20 and A = 3.0 gives +10.
C10_AverageBuckets ==
    (pc = "fast_replies" /\ ApprovedRatings # <<>>) =>
      LET total == SumRatings(ApprovedRatings)
          count == Len(ApprovedRatings)
      IN  /\ score_change = BucketOf(ApprovedRatings)
          /\ total = 4 * count => score_change = 20
          /\ total = 3 * count => score_change = 10
          /\ total < 3 * count => score_change = -15

\* C10: two approved reviews rated differently with mean exactly 4.0 got +20
C10_Witness ==
    /\ pc = "fast_replies"
    /\ Len(ApprovedRatings) = 2
    /\ ApprovedRatings[1] # ApprovedRatings[2]
    /\ SumRatings(ApprovedRatings) = 8
    /\ score_change = 20

\* the average-rating sub-score of the approved reviews of the running call
AveragePartOfApproved ==
    IF ApprovedRatings = <<>> THEN 0 ELSE BucketOf(ApprovedRatings)

\* the review has a non-empty reply, a reply timestamp and a creation
\* timestamp, and the reply came `hours` hours after the creation
RepliedAfter(r, hours) ==
    /\ "reply" \in DOMAIN r /\ r.reply # None /\ Len(r.reply) > 0
    /\ "reply_at" \in DOMAIN r /\ r.reply_at.kind = "datetime"
    /\ "created_at" \in DOMAIN r /\ r.created_at.kind = "datetime"
    /\ r.reply_at.v = r.created_at.v + hours

\* the approved reviews of the running call that were replied to in
\* strictly less than 24 hours
FastReplied ==
    {i \in 1..Len(approved) : \E h \in -48..23 : RepliedAfter(approved[i], h)}

\* C11: an approved review counts as fast-replied exactly when it has a
\* non-empty reply, a reply timestamp, and the reply came strictly less than
\* 24 hours after the creation (exactly 24 hours does not count); the
\* fast-reply sub-score is +10 when at least one approved review is
\* fast-replied and 0 otherwise, the same for one as for many.
C11_FastReplies ==
    pc = "resolutions" =>
      /\ score_change - AveragePartOfApproved = (IF FastReplied # {} THEN 10 ELSE 0)
      /\ (\A i \in 1..Len(approved) : ~RepliedAfter(approved[i], 23))
           /\ (\E i \in 1..Len(approved) : RepliedAfter(approved[i], 24))
           /\ (\A i \in 1..Len(approved) : ~RepliedAfter(approved[i], -1))
         => score_change = AveragePartOfApproved

\* C11: two approved reviews replied to after 23 hours gave +10, once
C11_Witness ==
    /\ pc = "resolutions"
    /\ Len(approved) = 2
    /\ \A i \in 1..2 : RepliedAfter(approved[i], 23)
    /\ score_change = AveragePartOfApproved + 10

\* the review has the re-rating n
ReRatedAs(r, n) ==
    "re_rating" \in DOMAIN r /\ r.re_rating.kind = "int" /\ r.re_rating.v = n

\* the approved reviews of the running call with a re-rating of 4 or more
Resolved ==
    {i \in 1..Len(approved) : \E n \in 4..10 : ReRatedAs(approved[i], n)}

\* the resolution sub-score of the running call: what the resolution step
\* added to the average-rating and fast-reply sub-scores
ResolutionSubScore ==
    score_change - AveragePartOfApproved - (IF FastReplied # {} THEN 10 ELSE 0)

\* C12: an approved review counts as resolved exactly when it has a
\* re-rating >= 4; the resolution sub-score is +15 when at least one
\* approved review is resolved and 0 otherwise, the same for one as for many.
C12_Resolutions ==
    (pc = "return_reviews" /\ approved # <<>>) =>
      /\ ResolutionSubScore = (IF Resolved # {} THEN 15 ELSE 0)
      /\ (\E i \in 1..Len(approved) : ReRatedAs(approved[i], 4)) => ResolutionSubScore = 15
      /\ (\A i \in 1..Len(approved) : \A n \in 4..10 : ~ReRatedAs(approved[i], n))
           => ResolutionSubScore = 0

\* C12: two approved reviews re-rated 4 and 5 gave +15, once
C12_Witness ==
    /\ pc = "return_reviews"
    /\ Len(approved) = 2
    /\ ReRatedAs(approved[1], 4)
    /\ ReRatedAs(approved[2], 5)
    /\ ResolutionSubScore = 15

\* the approved reviews of the running call that have a non-empty reply and
\* both timestamps
RepliedReviews ==
    {i \in 1..Len(approved) : \E h \in -48..48 : RepliedAfter(approved[i], h)}

\* C13: a review whose reply timestamp is earlier than its creation
\* timestamp is not counted as fast-replied and does not make the call
\* fail: a review list whose only replied reviews have a negative time
\* delta gets a fast-reply sub-score of 0.
C13_NegativeDeltaNotFast ==
    (pc = "resolutions"
       /\ \A i \in RepliedReviews : \E h \in -48..-1 : RepliedAfter(approved[i], h))
      => score_change = AveragePartOfApproved

\* the lowest and the highest rating a review can carry
MinRating == 1

MaxRating == 5

InRange(n) == n >= MinRating /\ n <= MaxRating

\* the policy "exclude": ratings outside 1..5 are left out of the average
ExcludePolicy(ratings) ==
    LET kept == SelectSeq(ratings, InRange)
    IN  IF kept = <<>> THEN 0 ELSE BucketOf(kept)

\* the policy "clamp": ratings outside 1..5 are brought into 1..5 before
\* the average is taken
ClampPolicy(ratings) ==
    BucketOf([i \in 1..Len(ratings) |->
                IF ratings[i] < MinRating THEN MinRating
                ELSE IF ratings[i] > MaxRating THEN MaxRating
                ELSE ratings[i]])

\* C14: an approved review whose rating lies outside 1..5 does not corrupt
\* the average: the average-rating sub-score equals the sub-score computed
\* under one fixed policy, either with such reviews excluded or with their
\* ratings clamped into 1..5 before averaging.
C14_OutOfRangePolicy ==
    (pc = "fast_replies" /\ ApprovedRatings # <<>>) =>
      \/ score_change = ExcludePolicy(ApprovedRatings)
      \/ score_change = ClampPolicy(ApprovedRatings)

(***************************************************************************)
(* Several calls one after the other                                       *)
(***************************************************************************)
\* the reviews of the calls that are compared with one another: approved,
\* pending and rejected ones, with and without what earns a sub-score
CallReviewSamples ==
    {Review("approved", PyInt(5), ReplyText, PyDatetime(101), PyDatetime(100), PyInt(5)),
     Rated("approved", 1),
     Review("pending", PyInt(5), ReplyText, PyDatetime(101), PyDatetime(100), PyInt(5)),
     Rated("rejected", 1),
     Review("pending", PyNone, None, PyNone, PyDatetime(100), PyNonNumeric),
     Review("approved", PyNone, None, PyNone, PyDatetime(100), PyNone),
     Without(Rated("approved", 4), "status")}

\* the review list without the reviews that carry a status other than approved
WithoutUnapproved(revs) ==
    IF revs.kind = "list"
    THEN ReviewList(SelectSeq(revs.items,
                              LAMBDA r : ~("status" \in DOMAIN r /\ r.status # "approved")))
    ELSE revs

\* the review list in the opposite order
Reversed(revs) ==
    IF revs.kind = "list"
    THEN ReviewList([i \in 1..Len(revs.items) |-> revs.items[Len(revs.items) + 1 - i]])
    ELSE revs

\* the review list in every order
Reorderings(revs) ==
    IF revs.kind = "list"
    THEN {ReviewList([i \in 1..Len(revs.items) |-> revs.items[p[i]]]) :
            p \in {q \in [1..Len(revs.items) -> 1..Len(revs.items)] :
                      \A i, j \in 1..Len(revs.items) : q[i] = q[j] => i = j}}
    ELSE {revs}

\* a call, then a call on related or on unrelated arguments, then the first
\* call again
InitCalls ==
    \/ \E revs \in {NoReviewList} \cup {ReviewList(l) : l \in ListsUpTo(CallReviewSamples, MaxReviews)} :
         \E second \in {Args(ScenarioMid, WithoutUnapproved(revs)),
                         Args(ScenarioB, OneReviewList)}
                          \cup {Args(ScenarioMid, p) : p \in Reorderings(revs)} :
           StartBatches(<<Args(ScenarioMid, revs)>>,
                        <<<<second>>, <<Args(ScenarioMid, revs)>>>>)
    \/ StartTwoRequests
    \/ StartEveryRoute

SpecCalls == InitCalls /\ [][Next]_vars

\* the outcomes of two calls agree on the score: both returned the same
\* score, or neither returned
SameScore(r1, r2) ==
    /\ r1.kind = r2.kind
    /\ r1.kind = "return" => r1.value.score = r2.value.score

\* the calls of calculate_trust_score completed in earlier batches
EarlierCalls ==
    {i \in DOMAIN history : history[i].caller = "calculate_trust_score"}

\* the running call is a completed call of calculate_trust_score
CallCompleted == pc \in {"done", "raised"} /\ caller = "calculate_trust_score"

\* C15: only approved reviews count: the score of
\* calculate_trust_score(agency, R) equals the score of
\* calculate_trust_score(agency, R restricted to the approved reviews), so
\* that pending and rejected reviews never change the score.
C15_OnlyApprovedCount ==
    CallCompleted =>
      \A i \in EarlierCalls :
          (agency = history[i].agency /\ reviews = WithoutUnapproved(history[i].reviews))
            => SameScore(history[i].result, result)

\* C15: a list with an approved review and a pending one that would earn
\* every sub-score was scored, and then the list without the pending one
C15_Witness ==
    /\ pc = "done" /\ caller = "calculate_trust_score"
    /\ history # <<>>
    /\ history[1].caller = "calculate_trust_score"
    /\ history[1].agency = agency
    /\ history[1].reviews.kind = "list"
    /\ Len(history[1].reviews.items) = 2
    /\ \E k \in 1..2 : /\ "status" \in DOMAIN history[1].reviews.items[k]
                        /\ history[1].reviews.items[k].status = "pending"
                        /\ history[1].reviews.items[k].rating = PyInt(5)
    /\ reviews = WithoutUnapproved(history[1].reviews)
    /\ Len(reviews.items) = 1
    /\ history[1].result.kind = "return"
    /\ result.value.score = history[1].result.value.score

\* the message m is one of the reasons
InReasons(rs, m) == \E i \in 1..Len(rs) : rs[i] = m

\* the review list has no review with the status approved
NoneApproved(revs) ==
    \A i \in 1..Len(revs.items) :
        "status" \in DOMAIN revs.items[i] /\ revs.items[i].status # "approved"

\* C16: with no reviews (the list is empty or missing) or no approved
\* review, the review component contributes 0 and the returned reasons
\* contain "No reviews yet" (no reviews) or "No approved reviews" (reviews,
\* none approved).
C16_NoReviewMessages ==
    CallReturned =>
      /\ ~ReviewsTruthy(reviews) =>
            /\ result.value.details["reviews"].score = 0
            /\ InReasons(result.value.reasons, "No reviews yet")
      /\ (ReviewsTruthy(reviews) /\ NoneApproved(reviews)) =>
            /\ result.value.details["reviews"].score = 0
            /\ InReasons(result.value.reasons, "No approved reviews")

\* the messages that calculate_trust_score can give for each component
PhoneMessages ==
    {"Valid phone format (+15)"}
      \cup {"Invalid phone: " \o m \o " (-20)" :
               m \in {"Phone number missing", "Must start with +216",
                      "Invalid length (must be +216 + 8 digits)",
                      "Non-digit characters after +216", "Must have 8 digits"}}
      \cup {"Invalid phone: Blocked prefix " \o d \o " (-30)" :
               d \in {"0", "1", "2", "3", "4", "5", "6", "7", "8", "9"}}

EmailMessages ==
    {"Valid email domain (+15)", "Invalid email: Email missing (-20)",
     "Invalid email: Invalid email format (-20)"}
      \cup {"Invalid email: Suspicious domain (" \o w \o ") (-25)" :
               w \in {"free", "temp", "spam", "fake", "test123", "test456"}}

TaxIdMessages ==
    {"Valid RNE format (+20)", "Invalid RNE: Tax ID missing (-25)",
     "Invalid RNE: Invalid RNE format (must be 8 digits + 1 letter) (-25)"}

OfficialNameMessages == {"Official name verified (+10)", "No official name"}

\* the averages that can be shown: d.d for 0.0 to 9.9
ShownAverages ==
    {ToString(u) \o "." \o ToString(t) : u \in 0..9, t \in 0..9}

AverageMessages ==
    {"High ratings (" \o a \o "*) (+20)" : a \in ShownAverages}
      \cup {"Good ratings (" \o a \o "*) (+10)" : a \in ShownAverages}
      \cup {"Low ratings (" \o a \o "*) (-15)" : a \in ShownAverages}
      \cup {"No reviews yet", "No approved reviews"}

FastReplyMessages ==
    {"Fast replies (" \o ToString(n) \o ") (+10)" : n \in 1..(MaxReviews + 1)}

ResolutionMessages ==
    {"Good resolutions (" \o ToString(n) \o ") (+15)" : n \in 1..(MaxReviews + 1)}

\* the components in the order of the reasons
ComponentMessages ==
    <<PhoneMessages, EmailMessages, TaxIdMessages, OfficialNameMessages,
      AverageMessages, FastReplyMessages, ResolutionMessages>>

\* the components that the message m can come from
ComponentsOf(m) == {c \in DOMAIN ComponentMessages : m \in ComponentMessages[c]}

\* C17: in every result the reasons appear in the fixed order phone, email,
\* tax ID, official name, then the review messages in the order average
\* rating, fast reply, resolution; there is exactly one phone message, one
\* email message and one tax-ID message whatever the inputs.
C17_ReasonsOrder ==
    CallReturned =>
      LET rs == result.value.reasons
      IN  /\ \A i \in 1..Len(rs) : Cardinality(ComponentsOf(rs[i])) = 1
          /\ \A i, j \in 1..Len(rs) :
                i < j => \A ci \in ComponentsOf(rs[i]), cj \in ComponentsOf(rs[j]) : ci < cj
          /\ Len(rs) >= 3
          /\ ComponentsOf(rs[1]) = {1}
          /\ ComponentsOf(rs[2]) = {2}
          /\ ComponentsOf(rs[3]) = {3}

\* C17: a result with a message of each of the seven components
C17_Witness ==
    /\ CallReturned
    /\ Len(result.value.reasons) = 7
    /\ \A c \in 1..7 : ComponentsOf(result.value.reasons[c]) = {c}

\* the messages of the components other than the official name
OtherMessages ==
    PhoneMessages \cup EmailMessages \cup TaxIdMessages
      \cup AverageMessages \cup FastReplyMessages \cup ResolutionMessages

\* C18: every result contains an official-name message in its reasons, also
\* when the name is missing or blank: the absence is reported, with delta
\* 0, and not omitted.
C18_OfficialNameReported ==
    CallReturned =>
      \E i \in 1..Len(result.value.reasons) : result.value.reasons[i] \notin OtherMessages

\* C19: calculate_trust_score is deterministic: two calls with identical
\* agency fields and identical review lists return identical results (same
\* score, same reasons in the same order, same details), whatever calls
\* were made before or between them.
C19_Deterministic ==
    CallCompleted =>
      \A i \in EarlierCalls :
          (agency = history[i].agency /\ reviews = history[i].reviews)
            => result = history[i].result

\* C19: a call with reviews returned, another call on other arguments was
\* made, and the first call was made again and returned
C19_Witness ==
    /\ pc = "done" /\ caller = "calculate_trust_score"
    /\ Len(history) = 2
    /\ history[1].caller = "calculate_trust_score"
    /\ history[2].caller = "calculate_trust_score"
    /\ history[1].agency = agency /\ history[1].reviews = reviews
    /\ history[2].agency # agency
    /\ ReviewsTruthy(reviews)
    /\ history[2].result # result
    /\ history[1].result = result

(***************************************************************************)
(* Calls of requests served at the same time                               *)
(***************************************************************************)
\* the reviews of the requests: one that earns every sub-score and one
\* that lowers the score
RequestReviewSamples ==
    {Review("approved", PyInt(5), ReplyText, PyDatetime(101), PyDatetime(100), PyInt(5)),
     Rated("approved", 1)}

\* two requests for different agencies are served at the same time, and
\* then the same two calls are made one after the other
InitRequests ==
    \/ \E a1 \in {ScenarioA, ScenarioMid},
          r1 \in {NoReviewList} \cup {ReviewList(l) : l \in ListsUpTo(RequestReviewSamples, MaxReviews)},
          r2 \in {NoReviewList, OneReviewList} :
         StartBatches(<<Args(a1, r1), Args(ScenarioB, r2)>>,
                      <<<<Args(a1, r1)>>, <<Args(ScenarioB, r2)>>>>)
    \/ StartEveryRoute

SpecRequests == InitRequests /\ [][Next]_vars

\* the arguments of the calls in progress
CallArgs ==
    {Args(agency, reviews)}
      \cup {Args(suspended[i].agency, suspended[i].reviews) : i \in DOMAIN suspended}

\* the calls of calculate_trust_score of the first batch, which ran at the
\* same time
ConcurrentCalls == {i \in EarlierCalls : i <= 2}

\* a call made on its own has completed, after the calls of the first batch
SequentialCallCompleted == CallCompleted /\ suspended = <<>> /\ Len(history) >= 2

\* C20: calculate_trust_score only reads its two arguments: it leaves the
\* agency record and every review unchanged and writes no state shared
\* between calls, so that calls for different agencies that run at the same
\* time, in any interleaving, return the same results as the same calls
\* made one after the other.  (The steps looked at are those of the calls:
\* a step in which the server answers a request is not one of them.)
C20_NoSharedState ==
    /\ [](SequentialCallCompleted =>
            \A i \in ConcurrentCalls :
                (agency = history[i].agency /\ reviews = history[i].reviews)
                  => result = history[i].result)
    /\ [][(history' = history /\ served' = served) => CallArgs' = CallArgs]_vars
    /\ [][Switch \/ NextBatch \/ served' # served
            \/ (agency' = agency /\ reviews' = reviews /\ suspended' = suspended
                  /\ todo' = todo /\ history' = history)]_vars

\* C20: two calls of calculate_trust_score for different agencies ran at
\* the same time and returned different results, and one of them, made
\* again on its own, returned what it had returned then
C20_Witness ==
    /\ pc = "done" /\ caller = "calculate_trust_score"
    /\ suspended = <<>>
    /\ Len(history) = 2
    /\ ConcurrentCalls = {1, 2}
    /\ history[1].agency # history[2].agency
    /\ history[1].result.kind = "return"
    /\ history[2].result.kind = "return"
    /\ history[1].result # history[2].result
    /\ ReviewsTruthy(reviews)
    /\ \E i \in ConcurrentCalls :
          /\ agency = history[i].agency /\ reviews = history[i].reviews
          /\ result = history[i].result

\* the tax IDs that differ from t in one space or in the case of one letter
SpaceCaseVariants(t) ==
    {SubSeq(t, 1, k) \o <<" ">> \o SubSeq(t, k + 1, Len(t)) : k \in 0..Len(t)}
      \cup {SubSeq(t, 1, k - 1) \o SubSeq(t, k + 1, Len(t)) :
               k \in {i \in 1..Len(t) : t[i] = " "}}
      \cup {[t EXCEPT ![k] = IF t[k] \in LowerChars THEN UpperChar(t[k]) ELSE LowerChar(t[k])] :
               k \in 1..Len(t)}

\* t with its spaces removed and its letters in upper case
SpacesRemovedUpper(t) ==
    LET q == SelectSeq(t, LAMBDA c : c # " ")
    IN  [i \in 1..Len(q) |-> IF q[i] \in LowerChars THEN UpperChar(q[i]) ELSE q[i]]

\* C23 as claimed: validate_rne compares the tax ID after removing spaces
\* and upper-casing it: two tax IDs that differ only in spaces and in
\* letter case get the same delta, and the delta is +20 exactly when the
\* normalised value is 8 digits followed by one letter A-Z.
C23_SpacesAndCase ==
    (Checked("rne") /\ Truthy(FieldOf("tax_id"))) =>
      LET t == FieldOf("tax_id")
      IN  /\ \A v \in SpaceCaseVariants(t) : validate_rne(v)[3] = details.rne.score
          /\ details.rne.score = 20 <=> TaxIdShape(SpacesRemovedUpper(t), UpperChars)

\* C23 as amended: two tax IDs that differ only in spaces and in letter
\* case get the same delta, and the delta is +20 exactly when the tax ID
\* with its spaces removed, the whitespace at its ends trimmed and its
\* letters in upper case is 8 digits followed by one letter A-Z.
C23_SpacesCaseAndTrim ==
    (Checked("rne") /\ Truthy(FieldOf("tax_id"))) =>
      LET t == FieldOf("tax_id")
          q == SpacesRemovedUpper(t)
      IN  /\ \A v \in SpaceCaseVariants(t) : validate_rne(v)[3] = details.rne.score
          /\ details.rne.score \in {20, -25}
          /\ details.rne.score = 20 <=>
                \E i \in 1..Len(q) : \E j \in i..Len(q) :
                    Framed(q, i, j) /\ TaxIdShape(SubSeq(q, i, j), UpperChars)

\* C23: a tax ID with a space between its digits got +20, as it does
\* without the space
C23_Witness ==
    /\ Checked("rne")
    /\ Truthy(FieldOf("tax_id"))
    /\ Len(FieldOf("tax_id")) = 10
    /\ \E k \in 2..8 : FieldOf("tax_id")[k] = " "
    /\ SpacesRemovedUpper(FieldOf("tax_id")) = TaxIdA
    /\ details.rne.score = 20

\* the average-rating messages proper
RatingMessages == AverageMessages \ {"No reviews yet", "No approved reviews"}

\* how many of the reasons rs are messages of the set S
CountIn(rs, S) == Cardinality({i \in 1..Len(rs) : rs[i] \in S})

\* the reviews of the list that the calculator takes as approved
ApprovedOf(revs) ==
    SelectSeq(revs.items, LAMBDA r : "status" \notin DOMAIN r \/ r.status = "approved")

\* what C24 says of the fast-reply and resolution messages and of Scenario C
AtMostOneEach(rs) ==
    /\ CountIn(rs, FastReplyMessages) <= 1
    /\ CountIn(rs, ResolutionMessages) <= 1
    /\ CountIn(rs, FastReplyMessages) = 1 =>
          \E i \in 1..Len(ApprovedOf(reviews)) : \E h \in -48..23 :
              RepliedAfter(ApprovedOf(reviews)[i], h)
    /\ CountIn(rs, ResolutionMessages) = 1 =>
          \E i \in 1..Len(ApprovedOf(reviews)) : \E n \in 4..10 :
              ReRatedAs(ApprovedOf(reviews)[i], n)
    /\ (agency = ScenarioA /\ reviews = ScenarioCReviews) =>
          /\ result.value.score = 100
          /\ CountIn(rs, RatingMessages) = 1
          /\ CountIn(rs, FastReplyMessages) = 1
          /\ CountIn(rs, ResolutionMessages) = 0

IsReordering(r1, r2) ==
    /\ r1.kind = r2.kind
    /\ Len(r1.items) = Len(r2.items)
    /\ \A x \in {r1.items[i] : i \in 1..Len(r1.items)} \cup {r2.items[i] : i \in 1..Len(r2.items)} :
          Cardinality({i \in 1..Len(r1.items) : r1.items[i] = x})
            = Cardinality({i \in 1..Len(r2.items) : r2.items[i] = x})

\* C25: the result of calculate_trust_score does not depend on the order
\* of the review list: for every permutation P of a review list R,
\* calculate_trust_score(agency, P(R)) returns the same score and the same
\* reasons as calculate_trust_score(agency, R).
C25_OrderIrrelevant ==
    CallCompleted =>
      \A i \in EarlierCalls :
          (agency = history[i].agency /\ IsReordering(reviews, history[i].reviews))
            => /\ SameScore(history[i].result, result)
               /\ result.kind = "return" =>
                     result.value.reasons = history[i].result.value.reasons

\* C25: a list of two approved reviews with different ratings was scored,
\* and then the list in the opposite order
C25_Witness ==
    /\ pc = "done" /\ caller = "calculate_trust_score"
    /\ history # <<>>
    /\ history[1].caller = "calculate_trust_score"
    /\ history[1].agency = agency
    /\ history[1].reviews.kind = "list"
    /\ Len(history[1].reviews.items) = 2
    /\ history[1].reviews.items[1] = Rated("approved", 1)
    /\ history[1].reviews.items[2].rating = PyInt(5)
    /\ reviews = Reversed(history[1].reviews)
    /\ history[1].result.kind = "return"
    /\ result.value.reasons = history[1].result.value.reasons

(***************************************************************************)
(* The agencies of the CSV file                                            *)
(***************************************************************************)
\* the payload as calculate_trust_score reads it: a field that is not there
\* reads as ''
WithDefaults(data) ==
    [f \in {"tax_id", "company_name", "governorate", "email", "phone"} |->
        IF f \in DOMAIN data THEN data[f] ELSE <<>>]

\* AgencyService.calculate_trust_score(agency) < 40
LowScore(data) == AgencyService_calculate_trust_score(WithDefaults(data))[1] < 40

\* C21: add_agency rejects every agency whose computed trust score is below
\* 40 (fraud_risk is true): the call fails and the agency is not added to
\* the store.
C21_LowScoreRejected ==
    [][(/\ served' = served + 1
        /\ response'.op = "add_agency"
        /\ LowScore(response'.request.data))
       => (response'.status # 200 /\ csv' = csv)]_vars

\* the tax IDs of the agencies in the file
StoredTaxIds(file) == {file[i].tax_id : i \in DOMAIN file}

\* no two stored agencies have the same tax ID
DistinctTaxIds ==
    \A i, j \in DOMAIN csv : i # j => csv[i].tax_id # csv[j].tax_id

\* C22: add_agency with a tax ID that, after pad_rne, is the tax ID of a
\* stored agency fails with the duplicate error 409 and leaves the store
\* unchanged; so after any sequence of add_agency, update_agency and
\* delete_agency calls no two stored agencies have the same tax ID.
C22_DuplicateRejected ==
    /\ []DistinctTaxIds
    /\ [][(/\ served' = served + 1
           /\ response'.op = "add_agency"
           /\ Truthy(DictGet(response'.request.data, "tax_id"))
           /\ pad_rne(response'.request.data.tax_id) \in StoredTaxIds(csv))
          => (response'.status = 409 /\ csv' = csv)]_vars

\* with two agencies in the store, add_agency was refused for a tax ID that
\* is the one of a stored agency only once it is padded
C22_Witness ==
    /\ response.op = "add_agency"
    /\ response.status = 409
    /\ response.request.data.tax_id = TaxIdGoodUnpadded
    /\ TaxIdGoodUnpadded \notin StoredTaxIds(csv)
    /\ Len(csv) = 2

(***************************************************************************)
(* Approvals of pending registrations                                      *)
(***************************************************************************)
\* the pending registrations that approve_pending_agency finds for the id
PendingOf(pending_id) ==
    {p \in pendings : p.pending_id = pending_id /\ p.status = "pending"}

\* the agency carries the data of the registration
CarriesData(a, p) ==
    /\ a.tax_id = p.agency_tax_id
    /\ a.company_name = p.company_name
    /\ a.official_name = p.official_name
    /\ a.email = p.email
    /\ a.phone = p.phone

\* every approved agency has the agency_id of its row id, and no two
\* agencies have the same one
ApprovedAgencyIds ==
    /\ \A i \in DOMAIN agencies :
          agencies[i].status = "approved"
            => agencies[i].agency_id = FormatAgencyId(agencies[i].id)
    /\ \A i, j \in DOMAIN agencies :
          (i # j /\ agencies[i].status = "approved" /\ agencies[j].status = "approved")
            => agencies[i].agency_id # agencies[j].agency_id

\* C26: approve_pending_agency on an existing pending registration succeeds
\* and, in one step, creates exactly one approved Agency that carries the
\* data of the registration and deletes the pending record; after any
\* sequence of approvals the approved agencies have pairwise distinct
\* agency_ids of the form A-<row id>.
C26_ApprovalSucceeds ==
    /\ []ApprovedAgencyIds
    /\ [][(/\ served' = served + 1
           /\ response'.op = "approve_pending_agency"
           /\ PendingOf(response'.request.pending_id) # {})
          => (/\ response'.status = 200
              /\ pendings' = pendings \ PendingOf(response'.request.pending_id)
              /\ Len(agencies') = Len(agencies) + 1
              /\ SubSeq(agencies', 1, Len(agencies)) = agencies
              /\ agencies'[Len(agencies')].status = "approved"
              /\ \A p \in PendingOf(response'.request.pending_id) :
                    CarriesData(agencies'[Len(agencies')], p))]_vars

(***************************************************************************)
(* The reviews in the table and the requests about them                    *)
(***************************************************************************)
\* a request was answered in the step
Answered(op) == served' = served + 1 /\ response'.op = op

\* a review was stored in the step
Stored ==
    /\ Len(review_rows') = Len(review_rows) + 1
    /\ SubSeq(review_rows', 1, Len(review_rows)) = review_rows

\* the review lists of the calls that get_agencies makes and has still to
\* make
ListsFromStore ==
    IF served > 0 /\ pc # "serve"
    THEN {reviews.items} \cup {todo[i][1].reviews.items : i \in DOMAIN todo}
    ELSE {}

\* the status of a review is set when it is stored, from what the guardian
\* says of its payload
StatusAtCreation ==
    Stored =>
       /\ response'.op = "create_review"
       /\ review_rows'[Len(review_rows')].status =
             IF is_suspicious(response'.request.data) THEN "rejected" ELSE "pending"

\* a status changes only from pending to approved, in approve_review
StatusChange ==
    \A i \in DOMAIN review_rows :
        (i \in DOMAIN review_rows' /\ review_rows'[i].status # review_rows[i].status)
          => /\ review_rows[i].status = "pending"
             /\ review_rows'[i].status = "approved"
             /\ Answered("approve_review")
             /\ response'.status = 200
             /\ review_rows[i].review_id = response'.request.review_id

\* approve_review on a review that is not pending fails and changes nothing
ApproveOnlyPending ==
    (/\ Answered("approve_review")
     /\ \E i \in DOMAIN review_rows :
           /\ review_rows[i].review_id = response'.request.review_id
           /\ review_rows[i].status # "pending")
      => (response'.status = 400 /\ review_rows' = review_rows)

\* C27: the status of a review is set at creation only: rejected when the
\* guardian flags the submission, pending otherwise, never approved.  Then
\* the only change is pending to approved by approve_review; approve_review
\* on an approved or rejected review fails and changes nothing, and reply,
\* re-review and edit never change the status.  So a guardian-rejected
\* review is never approved and never counts toward the trust score.
C27_StatusLifecycle ==
    /\ [](\A l \in ListsFromStore : \A i \in DOMAIN l : l[i].status = "approved")
    /\ [][/\ StatusAtCreation
          /\ StatusChange
          /\ ApproveOnlyPending
          /\ DOMAIN review_rows \subseteq DOMAIN review_rows']_vars

\* approve_review was refused for a review that the guardian had rejected
C27_Witness ==
    /\ response.op = "approve_review"
    /\ response.status = 400
    /\ \E i \in DOMAIN review_rows :
          /\ review_rows[i].review_id = response.request.review_id
          /\ review_rows[i].status = "rejected"
          /\ review_rows[i].created_at.v >= 200

\* at most one review for each pair of a client and an agency
OneReviewPerPair ==
    \A i, j \in DOMAIN review_rows :
        (/\ review_rows[i].client_id = review_rows[j].client_id
         /\ review_rows[i].agency_id = review_rows[j].agency_id) => i = j

\* the agency that the payload of create_review names, when there is one
NamedAgencies(data) ==
    IF "agency_tax_id" \in DOMAIN data /\ RnePatternMatches(NormTax(data.agency_tax_id))
    THEN {agencies[i].agency_id : i \in AgenciesOfTax(NormTax(data.agency_tax_id))}
    ELSE {}

\* C28: in every reachable state of the review store there is at most one
\* review for each (client, agency) pair: a create_review request of a
\* client who already has a review for the agency is answered 409 and
\* stores nothing, also when two such requests are in flight at the same
\* time and their duplicate checks and inserts interleave.
C28_OneReviewPerClient ==
    /\ []OneReviewPerPair
    /\ [][(/\ Answered("create_review")
           /\ \E a \in NamedAgencies(response'.request.data) :
                 HasReview(response'.request.client, a, review_rows))
          => (response'.status = 409 /\ review_rows' = review_rows)]_vars

\* the rating that a request carries: the rating of create_review, the stars
\* of patch_review
CarriedRatings(req) ==
    IF req.op = "create_review" /\ "rating" \in DOMAIN req.data THEN {req.data.rating}
    ELSE IF req.op = "patch_review" /\ "stars" \in DOMAIN req.data THEN {req.data.stars}
    ELSE {}

RatingsInRange ==
    /\ \A i \in DOMAIN review_rows :
          review_rows[i].rating.v \in MinRating..MaxRating
    /\ \A l \in ListsFromStore : \A i \in DOMAIN l :
          l[i].rating.v \in MinRating..MaxRating

\* C29 as it was stated: every stored review has a rating in 1..5, and a
\* create or edit request with a rating outside 1..5 is answered 400 and
\* leaves the review store unchanged.
C29_OutOfRangeIs400 ==
    /\ []RatingsInRange
    /\ [][(/\ served' = served + 1
           /\ \E n \in CarriedRatings(response'.request) : n \notin MinRating..MaxRating)
          => (response'.status = 400 /\ review_rows' = review_rows)]_vars

\* the request passes the checks that create_review and patch_review make
\* before they look at the rating
PassesEarlierChecks(req) ==
    IF req.op = "create_review"
    THEN /\ NamedAgencies(req.data) # {}
         /\ \A a \in NamedAgencies(req.data) : ~HasReview(req.client, a, review_rows)
    ELSE /\ req.client \in Clients
         /\ \E i \in RowsOfReview(req.review_id) : review_rows[i].client_id = req.client

\* C29: every stored review has a rating in 1..5 and the calculator never
\* receives another one from the store: a create or edit request with a
\* rating outside 1..5 is refused and leaves the review store unchanged; it
\* is answered 400, or 404 or 409 when a check made before the one of the
\* rating fails (agency or review not found, review already submitted).
C29_OutOfRangeRefused ==
    /\ []RatingsInRange
    /\ [][(/\ served' = served + 1
           /\ \E n \in CarriedRatings(response'.request) : n \notin MinRating..MaxRating)
          => (/\ response'.status \in {400, 404, 409}
              /\ PassesEarlierChecks(response'.request) => response'.status = 400
              /\ review_rows' = review_rows)]_vars

\* an edit with 9 stars of a review that may be edited was answered 400
C29_Witness ==
    /\ response.op = "patch_review"
    /\ response.status = 400
    /\ response.request.data.stars = 9
    /\ \E i \in RowsOfReview(response.request.review_id) :
          /\ review_rows[i].client_id = response.request.client
          /\ review_rows[i].re_rating = PyNone
          /\ review_rows[i].rating.v \in MinRating..MaxRating

\* a review that has a re-rating has a reply that is not empty
ReRatedHaveReply ==
    /\ \A i \in DOMAIN review_rows :
          review_rows[i].re_rating # PyNone => Truthy(review_rows[i].reply)
    /\ \A l \in ListsFromStore : \A i \in DOMAIN l :
          IsResolution(l[i]) => Truthy(l[i].reply)

=============================================================================
